---- MODULE Spec2Model ----
(***************************************************************************)
(* Lineage crawler and transaction classifier of AirdropTracker.           *)
(*                                                                         *)
(* State: the persisted tables (mother_wallets, wallets, transactions,     *)
(* trades, wallet_lineages, crawl_status), the ledger feed, and the        *)
(* running crawl session (its seed queue, its in-memory signature set and  *)
(* the stack of active crawl_wallet_tree calls).                           *)
(*                                                                         *)
(* The functions written after line 507 of wallet_crawler.py               *)
(* (calculate_lineage_totals, calculate_wallet_totals, update_crawl_status)*)
(* and after line 249 of solana_client.py (get_sol_balance_change) are     *)
(* modelled as the methods the call sites self.<name>(...) refer to.       *)
(***************************************************************************)
EXTENDS Integers, Sequences, FiniteSets, TLC

VARIABLES
    ledger,          \* the feed: sequence of transaction bodies, newest first
    mother_wallets,  \* table mother_wallets: row id = index
    wallets,         \* table wallets: row id = index
    transactions,    \* table transactions
    trades,          \* table trades
    wallet_lineages, \* table wallet_lineages
    crawl_status,    \* table crawl_status: address -> status ("none": no row)
    processed_signatures, \* WalletCrawler.processed_signatures of the session
    queue,           \* addresses crawl_all_mother_wallets has still to crawl
    stack,           \* active crawl_wallet_tree calls, innermost last
    running,         \* a crawl session is in progress
    wallet_addresses, \* the seed list of the session (crawl_all_mother_wallets)
    sessions,        \* number of sessions started so far
    ingested,        \* history: the <<wallet id, signature>> process_transaction was called on
    suspended,       \* the other session's crawler while it waits at an await
    last             \* what the last step did (observation only)

vars == <<ledger, mother_wallets, wallets, transactions, trades, wallet_lineages,
          crawl_status, processed_signatures, queue, stack, running, wallet_addresses,
          sessions, ingested, suspended, last>>

----------------------------------------------------------------------------
(* Bounds of the model *)

\* number of ledger transactions in the feed
MaxTx == 3
\* number of crawl sessions (start_crawl requests served one after another)
MaxSessions == 2
\* number of ledger transactions in the runs with database faults
MaxFaultTx == 2
\* number of sessions in the runs checked for progress
MaxLiveSessions == 1
\* number of trades rows up to which record_raydium_trade is called on its own
MaxTrades == 3
\* number of ledger transactions in the runs of direct calls
MaxTotalsTx == 2
\* number of ledger transactions that name both seeds in the long history
MaxSharedTx == 500

(* Program constants *)

\* WalletCrawler.max_depth
max_depth == 10
\* generation sentinel of external wallets
ExternalGeneration == 999
\* page size passed to get_token_transactions
PageLimit == 100
\* crawl_wallet_transactions.max_batches
max_batches == 50
\* crawl_wallet_transactions.max_total_transactions
max_total_transactions == 1000
\* wallets.current_yaffa_balance FLOAT DEFAULT 0.0
DefaultBalance == 0
\* lamports per SOL in the model's native unit (the code divides by 1e9)
LamportsPerSol == 1000

\* Python None / SQL NULL for row ids (ids start at 1)
Null == 0
\* Python None / SQL NULL for current_yaffa_balance (balances are >= 0)
NoBalance == -1

Addresses == {"M1", "M2", "X", "W", "P"}

----------------------------------------------------------------------------
(* The ledger feed *)

\* One transaction body as getTransaction returns it.
\*   keys: accountKeys (pubkeys); pre/post: lamport balances per account index;
\*   tok: pre/postTokenBalances of the tracked mint, <<accountIndex, pre, post>>
\*   in the order the balance map is built; programs: programId of the
\*   instructions; err: meta.err; blockTime: "number" or "missing".
Tx(sig, keys, pre, post, tok, programs, err, blockTime) ==
    [signature |-> sig, keys |-> keys, pre |-> pre, post |-> post, tok |-> tok,
     programs |-> programs, err |-> err, blockTime |-> blockTime]

RaydiumAMM == "675kPX9MHTjS2zt1qfr1NYHuzeLXfQM9H24wFSUt1Mp8"
TokenProgram == "TokenkegQfeZyiNwAJbNbGKPFXCWuBvf9Ss623VQ5DA"

\* Known Raydium program ids (detect_raydium_interaction.raydium_programs)
raydium_programs ==
    {"675kPX9MHTjS2zt1qfr1NYHuzeLXfQM9H24wFSUt1Mp8",
     "9WzDXwBbmkg8ZTbNMqUxvQRAyrZzDsGYdLVL9zYtAWWM",
     "27haf8L6oxUeXrHrgEgsexjSY5hbVUWEmvv9Nyxg8vQv",
     "CAMMCzo5YL8w4VFF8KVHrK22GGUsp5VTaW7grrKgrWqK"}

\* A plain token transfer of amt from a to b; the fee payer's lamports fall by fee.
Plain(sig, a, b, amt, feeA, feeB) ==
    Tx(sig, <<a, b>>, <<5000, 5000>>, <<5000 - feeA, 5000 - feeB>>,
       <<<<1, 100, 100 - amt>>, <<2, 0, amt>>>>, {TokenProgram}, FALSE, "number")

\* The transactions the feed may hold.
TxPool ==
    << Plain("s01", "M1", "W", 50, 5, 0),      \* M1 sends 50 to W, M1 pays the fee
       Plain("s02", "M2", "X", 50, 0, 0),      \* M2 sends 50 to X
       Plain("s03", "X", "W", 50, 0, 0),       \* X sends 50 to W
       Plain("s04", "X", "M1", 30, 0, 0),      \* X sends 30 to M1
       Plain("s05", "W", "M1", 20, 0, 0),      \* W sends 20 to M1
       Plain("s06", "M1", "M2", 40, 0, 0),     \* seed M1 sends 40 to seed M2
       Plain("s07", "W", "M2", 10, 0, 0),      \* W sends 10 to M2
       \* M1 sells 100 through Raydium and receives 2.5 SOL
       Tx("s08", <<"M1", "P">>, <<5000, 9000>>, <<7500, 6500>>,
          <<<<1, 100, 0>>, <<2, 0, 100>>>>, {RaydiumAMM, TokenProgram}, FALSE, "number"),
       Plain("s09", "M1", "W", 50, 0, 5),      \* M1 sends 50 to W, W pays the fee
       \* a failed transaction
       Tx("s10", <<"M1", "W">>, <<5000, 5000>>, <<4995, 5000>>,
          <<<<1, 100, 50>>, <<2, 0, 50>>>>, {TokenProgram}, TRUE, "number"),
       \* M1 sends 30 to X and 30 to W under one signature
       Tx("s11", <<"M1", "X", "W">>, <<5000, 5000, 5000>>, <<5000, 5000, 5000>>,
          <<<<1, 100, 40>>, <<2, 0, 30>>, <<3, 0, 30>>>>, {TokenProgram}, FALSE, "number"),
       \* M1 moves 100 through Raydium with no native movement
       Tx("s12", <<"M1", "P">>, <<5000, 9000>>, <<5000, 9000>>,
          <<<<1, 100, 0>>, <<2, 0, 100>>>>, {RaydiumAMM}, FALSE, "number"),
       Plain("s13", "X", "M1", 30, 0, 5),      \* X sends 30 to M1, M1 pays the fee
       Plain("s14", "W", "M1", 5, 0, 0) >>     \* W sends 5 to M1

\* Ledgers: the pool's transactions at a strictly increasing choice of positions.
RECURSIVE Pick(_, _)
Pick(from, n) ==
    IF n = 0 THEN {<<>>}
    ELSE {<<>>} \cup UNION { { <<TxPool[k]>> \o rest : rest \in Pick(k + 1, n - 1) }
                            : k \in from..Len(TxPool) }

Ledgers == Pick(1, MaxTx) \ {<<>>}

\* Seed lists a start_crawl request may carry.
SeedLists == { <<"M1">>, <<"M2">>, <<"M1", "M2">>, <<"M2", "M1">>, <<"M1", "M1">> }

----------------------------------------------------------------------------
(* Feed adapter: SolanaRPCClient *)

\* get_token_account_balance: the address's current holdings, never negative:
\* what the ledger's successful transactions moved to it, from a start of 100
\* for accounts that send.
BalanceAfter(address, txs, k) ==
    LET mine(tx) == { i \in 1..Len(tx.tok) :
                        /\ tx.tok[i][1] \in 1..Len(tx.keys)
                        /\ tx.keys[tx.tok[i][1]] = address }
        held == { j \in k..Len(txs) : mine(txs[j]) # {} /\ ~txs[j].err }
    IN  IF held = {} THEN 0
        ELSE LET tx == txs[CHOOSE j \in held : \A h \in held : j <= h]
             IN  tx.tok[CHOOSE i \in mine(tx) : TRUE][3]

get_token_account_balance(address) == BalanceAfter(address, ledger, 1)

\* getSignaturesForAddress + getTransaction: the bodies of the transactions that
\* name the address, newest first, after the cursor `before`, at most `limit`.
Mentions(address, txs, k) ==
    SelectSeq(SubSeq(txs, k, Len(txs)),
              LAMBDA tx : \E i \in 1..Len(tx.keys) : tx.keys[i] = address)

get_token_transactions(address, before, limit) ==
    LET all == Mentions(address, ledger, 1)
        pos == IF before = "" THEN 0
               ELSE IF \E i \in 1..Len(all) : all[i].signature = before
                    THEN CHOOSE i \in 1..Len(all) : all[i].signature = before
                    ELSE Len(all)
        rest == SubSeq(all, pos + 1, Len(all))
    IN  IF Len(rest) <= limit THEN rest ELSE SubSeq(rest, 1, limit)

\* parse_yaffa_transfers: one entry per account whose token balance changed.
\* A failed transaction yields nothing; a fault while an entry is built (no
\* blockTime, an account index outside accountKeys) ends the parse with the
\* entries built so far.
RECURSIVE ParseFrom(_, _)
ParseFrom(tx, k) ==
    IF k > Len(tx.tok) THEN <<>>
    ELSE LET e == tx.tok[k]
             diff == e[3] - e[2]
         IN  IF diff = 0 THEN ParseFrom(tx, k + 1)
             ELSE IF e[1] \notin 1..Len(tx.keys) \/ tx.blockTime # "number"
                  THEN <<>>
                  ELSE <<[account |-> tx.keys[e[1]], amount_change |-> diff,
                          signature |-> tx.signature]>> \o ParseFrom(tx, k + 1)

\* Mutant of parse_yaffa_transfers: meta.err is not looked at.
parse_yaffa_transfers_IgnoresErr(tx) == ParseFrom(tx, 1)

parse_yaffa_transfers(tx) ==
    IF tx.err THEN <<>> ELSE ParseFrom(tx, 1)

\* get_sol_balance_change: the lamport delta at the address's first position in
\* accountKeys, 0 when the address is no party (in lamports; the code divides
\* both balances by 1e9 before subtracting).
get_sol_balance_change(wallet_address, tx) ==
    LET at == { i \in 1..Len(tx.keys) : tx.keys[i] = wallet_address }
    IN  IF at = {} THEN 0
        ELSE LET wallet_index == CHOOSE i \in at : \A j \in at : i <= j
             IN  IF wallet_index <= Len(tx.pre) /\ wallet_index <= Len(tx.post)
                 THEN tx.post[wallet_index] - tx.pre[wallet_index]
                 ELSE 0

----------------------------------------------------------------------------
(* Classifier: WalletCrawler.detect_raydium_interaction *)

Abs(x) == IF x < 0 THEN -x ELSE x

NoTrade == [type |-> "none", yaffa_amount |-> 0, sol_amount |-> 0, price_per_token |-> 0]

\* The wallet's own token delta: the first parsed entry for its address.
WalletYaffaChange(address, yaffa_transfers) ==
    LET at == { i \in 1..Len(yaffa_transfers) : yaffa_transfers[i].account = address }
    IN  IF at = {} THEN 0
        ELSE yaffa_transfers[CHOOSE i \in at : \A j \in at : i <= j].amount_change

\* Mutant of detect_raydium_interaction: a token loss with no lamport movement
\* is a sell too.
detect_raydium_interaction_TokenOnlyIsSell(address, yaffa_transfers, tx) ==
    LET sol_change == get_sol_balance_change(address, tx)
        wallet_yaffa_change == WalletYaffaChange(address, yaffa_transfers)
    IN  IF wallet_yaffa_change < 0 /\ sol_change >= 0
        THEN [type |-> "sell", yaffa_amount |-> Abs(wallet_yaffa_change),
              sol_amount |-> sol_change,
              price_per_token |-> sol_change \div Abs(wallet_yaffa_change)]
        ELSE IF wallet_yaffa_change > 0 /\ sol_change < 0
        THEN [type |-> "buy", yaffa_amount |-> wallet_yaffa_change,
              sol_amount |-> Abs(sol_change),
              price_per_token |-> Abs(sol_change) \div wallet_yaffa_change]
        ELSE NoTrade

\* sell when the wallet lost tokens and gained lamports, buy when it gained
\* tokens and lost lamports; the program ids are not consulted.
detect_raydium_interaction(address, yaffa_transfers, tx) ==
    LET sol_change == get_sol_balance_change(address, tx)
        wallet_yaffa_change == WalletYaffaChange(address, yaffa_transfers)
    IN  IF wallet_yaffa_change < 0 /\ sol_change > 0
        THEN [type |-> "sell", yaffa_amount |-> Abs(wallet_yaffa_change),
              sol_amount |-> sol_change,
              price_per_token |-> sol_change \div Abs(wallet_yaffa_change)]
        ELSE IF wallet_yaffa_change > 0 /\ sol_change < 0
        THEN [type |-> "buy", yaffa_amount |-> wallet_yaffa_change,
              sol_amount |-> Abs(sol_change),
              price_per_token |-> Abs(sol_change) \div wallet_yaffa_change]
        ELSE NoTrade

----------------------------------------------------------------------------
(* Persistence: the tables as one record db = [mw, w, t, tr, l] *)

\* A wallets row as the insert leaves it: the balance and the aggregates take
\* the column defaults.
WalletRow(address, mother_wallet_id, parent_wallet_id, generation, is_external, discovered_by_mother) ==
    [address |-> address, mother_wallet_id |-> mother_wallet_id,
     parent_wallet_id |-> parent_wallet_id, generation |-> generation,
     is_external |-> is_external, discovered_by_mother |-> discovered_by_mother,
     current_yaffa_balance |-> DefaultBalance,
     total_yaffa_received |-> 0, total_yaffa_sent |-> 0, total_yaffa_sold |-> 0,
     total_yaffa_bought |-> 0, total_sol_received |-> 0, total_sol_spent |-> 0,
     net_yaffa_balance |-> 0, net_sol_balance |-> 0, lineage_yaffa_received |-> 0,
     lineage_yaffa_balance |-> 0, lineage_count |-> 0]

\* Mutant of WalletIdOf: the lookup finds no row.
WalletIdOf_NotFound(w, address) == Null

\* select('*').eq('address', address): the id of the first row, Null if none
WalletIdOf(w, address) ==
    LET at == { i \in 1..Len(w) : w[i].address = address }
    IN  IF at = {} THEN Null ELSE CHOOSE i \in at : \A j \in at : i <= j

MotherIdOf(mw, address) ==
    LET at == { i \in 1..Len(mw) : mw[i].address = address }
    IN  IF at = {} THEN Null ELSE CHOOSE i \in at : \A j \in at : i <= j

\* Mutant of get_or_create_wallet: the row is inserted without the lookup of
\* line 125.
get_or_create_wallet_NoLookup(db, address, is_mother, parent_id, mother_id, generation) ==
    LET found == MotherIdOf(db.mw, address)
        w2 == Append(db.w, WalletRow(address,
                                     IF is_mother THEN found ELSE mother_id,
                                     IF is_mother THEN Null ELSE parent_id,
                                     IF is_mother THEN 0 ELSE generation, FALSE, Null))
    IN  [db |-> [db EXCEPT !.w = w2], id |-> Len(w2)]

\* Mutant of get_or_create_wallet: an existing row of a non-seed takes the
\* parent and mother of the call.
get_or_create_wallet_Overwrites(db, address, is_mother, parent_id, mother_id, generation) ==
    LET existing == WalletIdOf(db.w, address)
    IN  IF existing # Null
        THEN [db |-> IF is_mother THEN db
                     ELSE [db EXCEPT !.w[existing].mother_wallet_id = mother_id,
                                     !.w[existing].parent_wallet_id = parent_id],
              id |-> existing]
        ELSE IF is_mother
        THEN LET found == MotherIdOf(db.mw, address)
                 mw2 == IF found = Null
                        THEN Append(db.mw, [address |-> address, label |-> "Mother"])
                        ELSE db.mw
                 mother_wallet_id == IF found = Null THEN Len(mw2) ELSE found
                 w2 == Append(db.w, WalletRow(address, mother_wallet_id, Null, 0,
                                              FALSE, Null))
             IN  [db |-> [db EXCEPT !.mw = mw2, !.w = w2], id |-> Len(w2)]
        ELSE LET w2 == Append(db.w, WalletRow(address, mother_id, parent_id,
                                              generation, FALSE, Null))
             IN  [db |-> [db EXCEPT !.w = w2], id |-> Len(w2)]

\* WalletCrawler.get_or_create_wallet: [db, id]. An existing row is returned as
\* it is; a new seed gets its MotherWallet row first.
get_or_create_wallet(db, address, is_mother, parent_id, mother_id, generation) ==
    LET existing == WalletIdOf(db.w, address)
    IN  IF existing # Null THEN [db |-> db, id |-> existing]
        ELSE IF is_mother
        THEN LET found == MotherIdOf(db.mw, address)
                 mw2 == IF found = Null
                        THEN Append(db.mw, [address |-> address, label |-> "Mother"])
                        ELSE db.mw
                 mother_wallet_id == IF found = Null THEN Len(mw2) ELSE found
                 w2 == Append(db.w, WalletRow(address, mother_wallet_id, Null, 0,
                                              FALSE, Null))
             IN  [db |-> [db EXCEPT !.mw = mw2, !.w = w2], id |-> Len(w2)]
        ELSE LET w2 == Append(db.w, WalletRow(address, mother_id, parent_id,
                                              generation, FALSE, Null))
             IN  [db |-> [db EXCEPT !.w = w2], id |-> Len(w2)]

\* Mutant of get_or_create_wallet_for_transfer: a new sender is attributed to
\* the discovering mother.
get_or_create_wallet_for_transfer_SenderAttributed(db, address, discovering_mother_id, is_sender, sender_id) ==
    LET existing == WalletIdOf(db.w, address)
    IN  IF existing # Null THEN [db |-> db, id |-> existing]
        ELSE LET row ==
                   IF is_sender
                   THEN WalletRow(address, discovering_mother_id, Null, ExternalGeneration,
                                  TRUE, discovering_mother_id)
                   ELSE IF /\ sender_id # Null
                           /\ db.w[sender_id].mother_wallet_id # Null
                           /\ ~db.w[sender_id].is_external
                   THEN WalletRow(address, db.w[sender_id].mother_wallet_id,
                                  sender_id, db.w[sender_id].generation + 1, FALSE,
                                  discovering_mother_id)
                   ELSE WalletRow(address, discovering_mother_id, Null,
                                  IF discovering_mother_id # Null
                                  THEN 1 ELSE ExternalGeneration,
                                  discovering_mother_id = Null,
                                  discovering_mother_id)
                 w2 == Append(db.w, row)
             IN  [db |-> [db EXCEPT !.w = w2], id |-> Len(w2)]

\* WalletCrawler.get_or_create_wallet_for_transfer: [db, id]. sender_id is the
\* row of sender_data, Null when none was passed.
get_or_create_wallet_for_transfer(db, address, discovering_mother_id, is_sender, sender_id) ==
    LET existing == WalletIdOf(db.w, address)
    IN  IF existing # Null THEN [db |-> db, id |-> existing]
        ELSE LET row ==
                   IF is_sender
                   THEN WalletRow(address, Null, Null, ExternalGeneration, TRUE,
                                  discovering_mother_id)
                   ELSE IF /\ sender_id # Null
                           /\ db.w[sender_id].mother_wallet_id # Null
                           /\ ~db.w[sender_id].is_external
                   THEN WalletRow(address, db.w[sender_id].mother_wallet_id,
                                  sender_id, db.w[sender_id].generation + 1, FALSE,
                                  discovering_mother_id)
                   ELSE WalletRow(address, discovering_mother_id, Null,
                                  IF discovering_mother_id # Null
                                  THEN 1 ELSE ExternalGeneration,
                                  discovering_mother_id = Null,
                                  discovering_mother_id)
                 w2 == Append(db.w, row)
             IN  [db |-> [db EXCEPT !.w = w2], id |-> Len(w2)]

\* Mutant of handle_multi_lineage_membership: the edge is inserted without
\* looking for an existing one.
handle_multi_lineage_membership_NoLookup(db, to_id, from_id, discovering_mother_id) ==
    IF /\ discovering_mother_id # Null
       /\ db.w[to_id].mother_wallet_id # Null
       /\ db.w[to_id].mother_wallet_id # discovering_mother_id
       /\ db.w[from_id].mother_wallet_id # Null
    THEN Append(db.l, [wallet_id |-> to_id, mother_wallet_id |-> discovering_mother_id,
                       connection_type |-> "transfer"])
    ELSE db.l

\* WalletCrawler.handle_multi_lineage_membership: the wallet_lineages table after.
handle_multi_lineage_membership(db, to_id, from_id, discovering_mother_id) ==
    LET current_mother == db.w[to_id].mother_wallet_id
        sender_mother == db.w[from_id].mother_wallet_id
    IN  IF discovering_mother_id = Null \/ current_mother = Null THEN db.l
        ELSE IF current_mother # discovering_mother_id /\ sender_mother # Null
        THEN IF \E i \in 1..Len(db.l) :
                   /\ db.l[i].wallet_id = to_id
                   /\ db.l[i].mother_wallet_id = discovering_mother_id
             THEN db.l
             ELSE Append(db.l, [wallet_id |-> to_id,
                                mother_wallet_id |-> discovering_mother_id,
                                connection_type |-> "transfer"])
        ELSE db.l

\* Mutant of HasSignature: the signature is looked up in transaction_hash, which
\* holds the signature joined with the two addresses.
HasSignature_ByHash(t, signature) ==
    \E i \in 1..Len(t) : t[i].transaction_hash = <<signature>>

\* Mutant of HasSignature: the signature is never found.
HasSignature_Never(t, signature) == FALSE

\* raw_data->>original_signature = signature
HasSignature(t, signature) ==
    \E i \in 1..Len(t) : t[i].original_signature = signature

\* Mutant of record_transfer: the row's is_lineage_transfer says whether the
\* recipient is attributed to a mother.
record_transfer_FlagOfRecipient(db, from_address, to_address, amount, signature, discovering_mother_id) ==
    IF HasSignature(db.t, signature) THEN db
    ELSE LET f == get_or_create_wallet_for_transfer(db, from_address,
                      discovering_mother_id, TRUE, Null)
             g == get_or_create_wallet_for_transfer(f.db, to_address,
                      discovering_mother_id, FALSE, f.id)
             l2 == handle_multi_lineage_membership(g.db, g.id, f.id,
                      discovering_mother_id)
             row == [transaction_hash |-> <<signature, from_address, to_address>>,
                     from_wallet_id |-> f.id, to_wallet_id |-> g.id,
                     yaffa_amount |-> amount, transaction_type |-> "transfer",
                     is_lineage_transfer |-> g.db.w[g.id].mother_wallet_id # Null,
                     discovering_mother_id |-> discovering_mother_id,
                     original_signature |-> signature]
         IN  [g.db EXCEPT !.l = l2, !.t = Append(g.db.t, row)]

\* WalletCrawler.record_transfer: the tables after. Nothing is written when a
\* transactions row with the signature exists, whatever its endpoints.
record_transfer(db, from_address, to_address, amount, signature, discovering_mother_id) ==
    IF HasSignature(db.t, signature) THEN db
    ELSE LET f == get_or_create_wallet_for_transfer(db, from_address,
                      discovering_mother_id, TRUE, Null)
             g == get_or_create_wallet_for_transfer(f.db, to_address,
                      discovering_mother_id, FALSE, f.id)
             l2 == handle_multi_lineage_membership(g.db, g.id, f.id,
                      discovering_mother_id)
             row == [transaction_hash |-> <<signature, from_address, to_address>>,
                     from_wallet_id |-> f.id, to_wallet_id |-> g.id,
                     yaffa_amount |-> amount, transaction_type |-> "transfer",
                     is_lineage_transfer |-> g.db.w[f.id].mother_wallet_id # Null,
                     discovering_mother_id |-> discovering_mother_id,
                     original_signature |-> signature]
         IN  [g.db EXCEPT !.l = l2, !.t = Append(g.db.t, row)]

\* Mutant of record_raydium_trade: the row is inserted without looking for an
\* existing one.
record_raydium_trade_NoLookup(db, wallet_id, raydium_data, tx) ==
    IF tx.blockTime # "missing" THEN db
    ELSE [db EXCEPT !.tr = Append(db.tr,
            [wallet_id |-> wallet_id, transaction_hash |-> tx.signature,
             trade_type |-> raydium_data.type,
             yaffa_amount |-> raydium_data.yaffa_amount,
             sol_amount |-> raydium_data.sol_amount,
             price_per_token |-> raydium_data.price_per_token,
             yaffa_amount_sold |-> IF raydium_data.type = "sell"
                                   THEN raydium_data.yaffa_amount ELSE 0,
             sol_amount_received |-> IF raydium_data.type = "sell"
                                     THEN raydium_data.sol_amount ELSE 0,
             yaffa_amount_bought |-> IF raydium_data.type = "buy"
                                     THEN raydium_data.yaffa_amount ELSE 0,
             sol_amount_spent |-> IF raydium_data.type = "buy"
                                  THEN raydium_data.sol_amount ELSE 0])]

\* WalletCrawler.record_raydium_trade: the tables after. The row's timestamp is
\* transaction.get('blockTime', now).isoformat(), which raises when blockTime
\* is the number the feed delivers; the fault is caught and nothing is inserted.
record_raydium_trade(db, wallet_id, raydium_data, tx) ==
    IF \E i \in 1..Len(db.tr) :
          db.tr[i].transaction_hash = tx.signature /\ db.tr[i].wallet_id = wallet_id
    THEN db
    ELSE IF tx.blockTime # "missing" THEN db
    ELSE [db EXCEPT !.tr = Append(db.tr,
            [wallet_id |-> wallet_id, transaction_hash |-> tx.signature,
             trade_type |-> raydium_data.type,
             yaffa_amount |-> raydium_data.yaffa_amount,
             sol_amount |-> raydium_data.sol_amount,
             price_per_token |-> raydium_data.price_per_token,
             yaffa_amount_sold |-> IF raydium_data.type = "sell"
                                   THEN raydium_data.yaffa_amount ELSE 0,
             sol_amount_received |-> IF raydium_data.type = "sell"
                                     THEN raydium_data.sol_amount ELSE 0,
             yaffa_amount_bought |-> IF raydium_data.type = "buy"
                                     THEN raydium_data.yaffa_amount ELSE 0,
             sol_amount_spent |-> IF raydium_data.type = "buy"
                                  THEN raydium_data.sol_amount ELSE 0])]

\* Mutant of RecordTransfers: the entry for the crawled wallet's own address is
\* recorded like any other.
RECURSIVE RecordTransfers_NoSelfSkip(_, _, _, _)
RecordTransfers_NoSelfSkip(db, wallet_id, transfers, k) ==
    IF k > Len(transfers) THEN db
    ELSE LET transfer == transfers[k]
             address == db.w[wallet_id].address
             mother == db.w[wallet_id].mother_wallet_id
         IN  IF transfer.amount_change > 0
             THEN RecordTransfers_NoSelfSkip(
                      record_transfer(db, transfer.account, address,
                          Abs(transfer.amount_change), transfer.signature, mother),
                      wallet_id, transfers, k + 1)
             ELSE RecordTransfers_NoSelfSkip(
                      record_transfer(db, address, transfer.account,
                          Abs(transfer.amount_change), transfer.signature, mother),
                      wallet_id, transfers, k + 1)

\* The loop of process_transaction over the parsed entries, from entry k on.
\* An entry for the crawled wallet's own address is skipped; a counterparty
\* whose balance rose is recorded as the sender, one whose balance fell as the
\* recipient.
RECURSIVE RecordTransfers(_, _, _, _)
RecordTransfers(db, wallet_id, transfers, k) ==
    IF k > Len(transfers) THEN db
    ELSE LET transfer == transfers[k]
             address == db.w[wallet_id].address
             mother == db.w[wallet_id].mother_wallet_id
         IN  IF transfer.account = address
             THEN RecordTransfers(db, wallet_id, transfers, k + 1)
             ELSE IF transfer.amount_change > 0
             THEN RecordTransfers(
                      record_transfer(db, transfer.account, address,
                          Abs(transfer.amount_change), transfer.signature, mother),
                      wallet_id, transfers, k + 1)
             ELSE RecordTransfers(
                      record_transfer(db, address, transfer.account,
                          Abs(transfer.amount_change), transfer.signature, mother),
                      wallet_id, transfers, k + 1)

\* WalletCrawler.process_transaction: the tables after.
process_transaction(db, wallet_id, tx) ==
    IF HasSignature(db.t, tx.signature) THEN db
    ELSE LET transfers == parse_yaffa_transfers(tx)
             raydium_interaction ==
                 detect_raydium_interaction(db.w[wallet_id].address, transfers, tx)
         IN  IF raydium_interaction.type # "none"
             THEN record_raydium_trade(db, wallet_id, raydium_interaction, tx)
             ELSE RecordTransfers(db, wallet_id, transfers, 1)

----------------------------------------------------------------------------
(* Aggregate recomputer *)

RECURSIVE SumSeq(_)
SumSeq(q) == IF q = <<>> THEN 0 ELSE Head(q) + SumSeq(Tail(q))

IsSentBy(row, wallet_id) ==
    row.from_wallet_id = wallet_id /\ row.transaction_type = "transfer"

IsReceivedBy(row, wallet_id) ==
    row.to_wallet_id = wallet_id /\ row.transaction_type = "transfer"

\* calculate_lineage_totals (called through calculate_wallet_totals): the
\* wallets table after the wallet's aggregates are recomputed from the rows.
calculate_lineage_totals(db, wallet_id) ==
    LET all_mothers ==
            ({db.w[wallet_id].mother_wallet_id}
             \cup { db.l[i].mother_wallet_id :
                      i \in { k \in 1..Len(db.l) : db.l[k].wallet_id = wallet_id } })
            \ {Null}
        total_sent == SumSeq([i \in 1..Len(db.t) |->
            IF IsSentBy(db.t[i], wallet_id) THEN db.t[i].yaffa_amount ELSE 0])
        total_received == SumSeq([i \in 1..Len(db.t) |->
            IF IsReceivedBy(db.t[i], wallet_id) THEN db.t[i].yaffa_amount ELSE 0])
        lineage_received == SumSeq([i \in 1..Len(db.t) |->
            IF IsReceivedBy(db.t[i], wallet_id) /\ db.t[i].is_lineage_transfer
            THEN db.t[i].yaffa_amount ELSE 0])
        mine(i) == db.tr[i].wallet_id = wallet_id
        total_sold == SumSeq([i \in 1..Len(db.tr) |->
            IF mine(i) /\ db.tr[i].trade_type = "sell"
            THEN db.tr[i].yaffa_amount_sold ELSE 0])
        total_sol_received == SumSeq([i \in 1..Len(db.tr) |->
            IF mine(i) /\ db.tr[i].trade_type = "sell"
            THEN db.tr[i].sol_amount_received ELSE 0])
        total_bought == SumSeq([i \in 1..Len(db.tr) |->
            IF mine(i) /\ db.tr[i].trade_type = "buy"
            THEN db.tr[i].yaffa_amount_bought ELSE 0])
        total_sol_spent == SumSeq([i \in 1..Len(db.tr) |->
            IF mine(i) /\ db.tr[i].trade_type = "buy"
            THEN db.tr[i].sol_amount_spent ELSE 0])
    IN  [db.w EXCEPT ![wallet_id] =
            [@ EXCEPT !.total_yaffa_received = total_received,
                      !.total_yaffa_sent = total_sent,
                      !.total_yaffa_sold = total_sold,
                      !.total_yaffa_bought = total_bought,
                      !.total_sol_received = total_sol_received,
                      !.total_sol_spent = total_sol_spent,
                      !.net_yaffa_balance =
                          total_received + total_bought - total_sent - total_sold,
                      !.net_sol_balance = total_sol_received - total_sol_spent,
                      !.lineage_yaffa_received = lineage_received,
                      !.lineage_yaffa_balance =
                          lineage_received - total_sent - total_sold,
                      !.lineage_count = Cardinality(all_mothers)]]

\* Mutant of calculate_wallet_totals: purchases are left out of the net balance.
calculate_wallet_totals_NoBought(db, wallet_id) ==
    LET w == calculate_lineage_totals(db, wallet_id)
    IN  [w EXCEPT ![wallet_id].net_yaffa_balance = @ - w[wallet_id].total_yaffa_bought]

\* is_lineage_transfer: the row's sender has a mother_wallet_id now.
is_lineage_transfer(db, transaction) ==
    /\ transaction.from_wallet_id \in 1..Len(db.w)
    /\ db.w[transaction.from_wallet_id].mother_wallet_id # Null

\* Mutant of calculate_wallet_totals: lineage_count counts the wallet_lineages
\* rows of the wallet and leaves its primary mother out.
calculate_wallet_totals_EdgesOnly(db, wallet_id) ==
    LET w == calculate_lineage_totals(db, wallet_id)
    IN  [w EXCEPT ![wallet_id].lineage_count =
            Cardinality({ i \in 1..Len(db.l) : db.l[i].wallet_id = wallet_id })]

\* Mutant of calculate_wallet_totals: the sold total is added to the stored one.
calculate_wallet_totals_Accumulates(db, wallet_id) ==
    LET w == calculate_lineage_totals(db, wallet_id)
    IN  [w EXCEPT ![wallet_id].total_yaffa_sold = @ + db.w[wallet_id].total_yaffa_sold]

\* calculate_wallet_totals: delegates to calculate_lineage_totals.
calculate_wallet_totals(db, wallet_id) == calculate_lineage_totals(db, wallet_id)

----------------------------------------------------------------------------
(* The crawl session *)

Db == [mw |-> mother_wallets, w |-> wallets, t |-> transactions, tr |-> trades,
       l |-> wallet_lineages]

StoreDb(db) ==
    /\ mother_wallets' = db.mw
    /\ wallets' = db.w
    /\ transactions' = db.t
    /\ trades' = db.tr
    /\ wallet_lineages' = db.l

\* One call of crawl_wallet_tree.
Frame(address, is_mother_wallet, parent_wallet_id, mother_wallet_id, generation) ==
    [address |-> address, is_mother_wallet |-> is_mother_wallet,
     parent_wallet_id |-> parent_wallet_id, mother_wallet_id |-> mother_wallet_id,
     generation |-> generation, pc |-> "enter", wallet_id |-> Null,
     all_transactions |-> <<>>, i |-> 1, before_signature |-> "", batch_count |-> 0,
     outbound |-> <<>>, j |-> 1, feed_failed |-> FALSE]

Top == stack[Len(stack)]
Pop == SubSeq(stack, 1, Len(stack) - 1)
SetTop(f) == [stack EXCEPT ![Len(stack)] = f]

\* update_crawl_status: the row of the address is created or overwritten.
update_crawl_status(wallet_address, status) ==
    [crawl_status EXCEPT ![wallet_address] = status]

\* Mutant of RegisterMothers: the lookup of line 22 is left out.
RegisterMothers_NoLookup(mw, addresses, k) ==
    mw \o [i \in 1..(Len(addresses) - k + 1) |->
              [address |-> addresses[k + i - 1], label |-> "Mother Wallet"]]

\* start_crawl: every address not yet in mother_wallets is registered.
RECURSIVE RegisterMothers(_, _, _)
RegisterMothers(mw, addresses, k) ==
    IF k > Len(addresses) THEN mw
    ELSE RegisterMothers(
             IF MotherIdOf(mw, addresses[k]) = Null
             THEN Append(mw, [address |-> addresses[k], label |-> "Mother Wallet"])
             ELSE mw,
             addresses, k + 1)

\* run_crawler, lines 42-48: the state of a crawler no request has started.
Idle ==
    [processed_signatures |-> {}, queue |-> <<>>, stack |-> <<>>, running |-> FALSE,
     wallet_addresses |-> <<>>]

Init ==
    /\ ledger \in Ledgers
    /\ mother_wallets = <<>>
    /\ wallets = <<>>
    /\ transactions = <<>>
    /\ trades = <<>>
    /\ wallet_lineages = <<>>
    /\ crawl_status = [a \in Addresses |-> "none"]
    /\ processed_signatures = {}
    /\ queue = <<>>
    /\ stack = <<>>
    /\ running = FALSE
    /\ wallet_addresses = <<>>
    /\ sessions = 0
    /\ ingested = {}
    /\ suspended = Idle
    /\ last = [op |-> "init"]

\* start_crawl + run_crawler: the seeds are registered and a fresh WalletCrawler
\* starts crawl_all_mother_wallets.
StartCrawl(addresses) ==
    /\ ~running
    /\ sessions < MaxSessions
    /\ mother_wallets' = RegisterMothers(mother_wallets, addresses, 1)
    /\ processed_signatures' = {}
    /\ wallet_addresses' = addresses
    /\ queue' = addresses
    /\ stack' = <<>>
    /\ running' = TRUE
    /\ sessions' = sessions + 1
    /\ last' = [op |-> "start_crawl"]
    /\ UNCHANGED <<ledger, wallets, transactions, trades, wallet_lineages, crawl_status,
                   ingested, suspended>>

\* crawl_all_mother_wallets: the next seed is crawled at generation 0.
NextSeed ==
    /\ running
    /\ stack = <<>>
    /\ queue # <<>>
    /\ stack' = <<Frame(Head(queue), TRUE, Null, Null, 0)>>
    /\ queue' = Tail(queue)
    /\ last' = [op |-> "next_seed", address |-> Head(queue)]
    /\ UNCHANGED <<ledger, mother_wallets, wallets, transactions, trades,
                   wallet_lineages, crawl_status, processed_signatures, running, wallet_addresses, sessions, ingested,
                   suspended>>

\* crawl_all_mother_wallets returns and run_crawler closes the crawler.
EndSession ==
    /\ running
    /\ stack = <<>>
    /\ queue = <<>>
    /\ running' = FALSE
    /\ last' = [op |-> "end_session"]
    /\ UNCHANGED <<ledger, mother_wallets, wallets, transactions, trades,
                   wallet_lineages, crawl_status, processed_signatures, queue, stack, wallet_addresses, sessions, ingested,
                   suspended>>

\* Mutant of Enter: the call proceeds whatever its generation.
Enter_NoDepthGuard ==
    /\ stack # <<>>
    /\ Top.pc = "enter"
    /\ LET r == get_or_create_wallet(Db, Top.address, Top.is_mother_wallet,
                     Top.parent_wallet_id, Top.mother_wallet_id, Top.generation)
       IN  /\ crawl_status' = update_crawl_status(Top.address, "crawling")
           /\ StoreDb(r.db)
           /\ stack' = SetTop([Top EXCEPT !.pc = "balance", !.wallet_id = r.id])
           /\ last' = [op |-> "enter", address |-> Top.address]
    /\ UNCHANGED <<ledger, processed_signatures, queue, running, wallet_addresses, sessions, ingested,
                   suspended>>

\* crawl_wallet_tree, lines 43-58: the depth guard, status 'crawling', and the
\* wallet's row.
Enter ==
    /\ stack # <<>>
    /\ Top.pc = "enter"
    /\ IF Top.generation > max_depth
       THEN /\ stack' = Pop
            /\ last' = [op |-> "max_depth", address |-> Top.address]
            /\ UNCHANGED <<mother_wallets, wallets, transactions, trades,
                           wallet_lineages, crawl_status>>
       ELSE LET r == get_or_create_wallet(Db, Top.address, Top.is_mother_wallet,
                         Top.parent_wallet_id, Top.mother_wallet_id, Top.generation)
            IN  /\ crawl_status' = update_crawl_status(Top.address, "crawling")
                /\ StoreDb(r.db)
                /\ stack' = SetTop([Top EXCEPT !.pc = "balance", !.wallet_id = r.id])
                /\ last' = [op |-> "enter", address |-> Top.address]
    /\ UNCHANGED <<ledger, processed_signatures, queue, running, wallet_addresses, sessions, ingested,
                   suspended>>

\* crawl_wallet_tree, lines 60-67: the balance is fetched and stored.
FetchBalance ==
    /\ stack # <<>>
    /\ Top.pc = "balance"
    /\ wallets' = [wallets EXCEPT ![Top.wallet_id].current_yaffa_balance =
                       get_token_account_balance(Top.address)]
    /\ stack' = SetTop([Top EXCEPT !.pc = "fetch"])
    /\ last' = [op |-> "balance", address |-> Top.address]
    /\ UNCHANGED <<ledger, mother_wallets, transactions, trades, wallet_lineages,
                   crawl_status, processed_signatures, queue, running, wallet_addresses, sessions, ingested,
                   suspended>>

\* The entries of a page not yet in processed_signatures, up to the room left
\* under max_total_transactions.
NewOf(page, k, seen, room) ==
    LET fresh == SelectSeq(SubSeq(page, k, Len(page)),
                           LAMBDA tx : tx.signature \notin seen)
    IN  IF Len(fresh) <= room THEN fresh
        ELSE IF room <= 0 THEN <<>> ELSE SubSeq(fresh, 1, room)

\* Mutant of FetchBatch: max_total_transactions is not enforced.
FetchBatch_NoTransactionLimit ==
    /\ stack # <<>>
    /\ Top.pc = "fetch"
    /\ LET page == get_token_transactions(Top.address, Top.before_signature, PageLimit)
           new == NewOf(page, 1, processed_signatures, Len(page))
           all == Top.all_transactions \o new
           done == \/ page = <<>>
                   \/ Len(page) < PageLimit
                   \/ Top.batch_count + 1 >= max_batches
       IN  /\ processed_signatures' =
                  processed_signatures \cup { new[k].signature : k \in 1..Len(new) }
           /\ stack' = SetTop([Top EXCEPT
                  !.all_transactions = all,
                  !.pc = IF done THEN "process" ELSE "fetch",
                  !.before_signature = IF done \/ page = <<>> THEN @
                                       ELSE page[Len(page)].signature,
                  !.batch_count = IF done THEN @ ELSE @ + 1])
           /\ last' = [op |-> "fetch", address |-> Top.address]
    /\ UNCHANGED <<ledger, mother_wallets, wallets, transactions, trades,
                   wallet_lineages, crawl_status, queue, running, wallet_addresses, sessions, ingested,
                   suspended>>

\* crawl_wallet_transactions, lines 172-212: one pass of the paging loop.
FetchBatch ==
    /\ stack # <<>>
    /\ Top.pc = "fetch"
    /\ LET page == get_token_transactions(Top.address, Top.before_signature, PageLimit)
           new == NewOf(page, 1, processed_signatures,
                        max_total_transactions - Len(Top.all_transactions))
           all == Top.all_transactions \o new
           done == \/ page = <<>>
                   \/ Len(all) >= max_total_transactions
                   \/ Len(page) < PageLimit
                   \/ Top.batch_count + 1 >= max_batches
       IN  /\ processed_signatures' =
                  processed_signatures \cup { new[k].signature : k \in 1..Len(new) }
           /\ stack' = SetTop([Top EXCEPT
                  !.all_transactions = all,
                  !.pc = IF done THEN "process" ELSE "fetch",
                  !.before_signature = IF done \/ page = <<>> THEN @
                                       ELSE page[Len(page)].signature,
                  !.batch_count = IF done THEN @ ELSE @ + 1])
           /\ last' = [op |-> "fetch", address |-> Top.address]
    /\ UNCHANGED <<ledger, mother_wallets, wallets, transactions, trades,
                   wallet_lineages, crawl_status, queue, running, wallet_addresses, sessions, ingested,
                   suspended>>

\* What process_transaction takes the transaction for: "known" (a row with the
\* signature exists), "sell" or "buy" (detect_raydium_interaction), else "transfer".
Classified(db, wallet_id, tx) ==
    IF HasSignature(db.t, tx.signature) THEN "known"
    ELSE LET r == detect_raydium_interaction(db.w[wallet_id].address,
                      parse_yaffa_transfers(tx), tx)
         IN  IF r.type # "none" THEN r.type ELSE "transfer"

\* crawl_wallet_transactions, lines 217-220: process_transaction on the next
\* collected transaction.
ProcessTx ==
    /\ stack # <<>>
    /\ Top.pc = "process"
    /\ Top.i <= Len(Top.all_transactions)
    /\ StoreDb(process_transaction(Db, Top.wallet_id, Top.all_transactions[Top.i]))
    /\ stack' = SetTop([Top EXCEPT !.i = @ + 1])
    /\ last' = [op |-> "process", address |-> Top.address,
                signature |-> Top.all_transactions[Top.i].signature,
                tx |-> Top.all_transactions[Top.i],
                wallet_id |-> Top.wallet_id,
                classified |-> Classified(Db, Top.wallet_id, Top.all_transactions[Top.i]),
                wallets_before |-> Len(wallets),
                transactions_before |-> Len(transactions),
                trades_before |-> Len(trades),
                lineages_before |-> Len(wallet_lineages),
                again |-> <<Top.wallet_id, Top.all_transactions[Top.i].signature>>
                              \in ingested]
    /\ ingested' = ingested \cup
                       {<<Top.wallet_id, Top.all_transactions[Top.i].signature>>}
    /\ UNCHANGED <<ledger, crawl_status, processed_signatures, queue, running,
                   wallet_addresses, sessions, suspended>>

\* The to_wallet_id of the wallet's persisted outbound transfers, in row order.
RECURSIVE OutboundOf(_, _, _)
OutboundOf(t, wallet_id, k) ==
    IF k > Len(t) THEN <<>>
    ELSE (IF IsSentBy(t[k], wallet_id) THEN <<t[k].to_wallet_id>> ELSE <<>>)
         \o OutboundOf(t, wallet_id, k + 1)

\* crawl_wallet_tree, line 75: the outbound transfers are read.
ListOutbound ==
    /\ stack # <<>>
    /\ Top.pc = "process"
    /\ Top.i > Len(Top.all_transactions)
    /\ stack' = SetTop([Top EXCEPT !.pc = "recipients",
                            !.outbound = OutboundOf(transactions, Top.wallet_id, 1)])
    /\ last' = [op |-> "outbound", address |-> Top.address]
    /\ UNCHANGED <<ledger, mother_wallets, wallets, transactions, trades, wallet_lineages,
                   crawl_status, processed_signatures, queue, running, wallet_addresses, sessions, ingested,
                   suspended>>

\* Mutant of ShouldCrawl: every recipient is crawled.
ShouldCrawl_Always(recipient_wallet, generation) == TRUE

\* crawl_wallet_tree, line 88: whether the recipient is crawled.
ShouldCrawl(recipient_wallet, generation) ==
    \/ recipient_wallet.generation > generation + 1
    \/ recipient_wallet.current_yaffa_balance = NoBalance

\* crawl_wallet_tree, lines 88-101: the recipient's generation is rewritten and
\* crawl_wallet_tree is called on it.
Descend ==
    /\ stack # <<>>
    /\ Top.pc = "recipients"
    /\ Top.j <= Len(Top.outbound)
    /\ LET rid == Top.outbound[Top.j]
           wallet == wallets[Top.wallet_id]
       IN  /\ ShouldCrawl(wallets[rid], Top.generation)
           /\ wallets' = [wallets EXCEPT ![rid].generation = Top.generation + 1]
           /\ stack' = Append(SetTop([Top EXCEPT !.j = @ + 1]),
                  Frame(wallets[rid].address, FALSE, Top.wallet_id,
                        IF wallet.mother_wallet_id # Null
                        THEN wallet.mother_wallet_id ELSE Top.wallet_id,
                        Top.generation + 1))
           /\ last' = [op |-> "descend", address |-> Top.address,
                       recipient |-> wallets[rid].address]
    /\ UNCHANGED <<ledger, mother_wallets, transactions, trades, wallet_lineages,
                   crawl_status, processed_signatures, queue, running, wallet_addresses, sessions, ingested,
                   suspended>>

\* crawl_wallet_tree, lines 102-103: the recipient is skipped.
Skip ==
    /\ stack # <<>>
    /\ Top.pc = "recipients"
    /\ Top.j <= Len(Top.outbound)
    /\ ~ShouldCrawl(wallets[Top.outbound[Top.j]], Top.generation)
    /\ stack' = SetTop([Top EXCEPT !.j = @ + 1])
    /\ last' = [op |-> "skip", address |-> Top.address,
                recipient |-> wallets[Top.outbound[Top.j]].address]
    /\ UNCHANGED <<ledger, mother_wallets, wallets, transactions, trades, wallet_lineages,
                   crawl_status, processed_signatures, queue, running, wallet_addresses, sessions, ingested,
                   suspended>>

\* crawl_wallet_tree, lines 107-114: the aggregates are recomputed, the status
\* becomes 'completed' and the call returns.
Finish ==
    /\ stack # <<>>
    /\ Top.pc = "recipients"
    /\ Top.j > Len(Top.outbound)
    /\ wallets' = calculate_wallet_totals(Db, Top.wallet_id)
    /\ crawl_status' = update_crawl_status(Top.address, "completed")
    /\ stack' = Pop
    /\ last' = [op |-> "finish", address |-> Top.address,
                batch_count |-> Top.batch_count,
                collected |-> Len(Top.all_transactions),
                is_mother_wallet |-> Top.is_mother_wallet,
                feed_failed |-> Top.feed_failed]
    /\ UNCHANGED <<ledger, mother_wallets, transactions, trades, wallet_lineages,
                   processed_signatures, queue, running, wallet_addresses, sessions, ingested,
                   suspended>>

\* A database call of crawl_wallet_tree's try block raises: the select or
\* insert of get_or_create_wallet (line 52, after the status became 'crawling'),
\* the balance update (line 64), the outbound query (line 75), or a recipient
\* query or generation update of the loop (lines 83, 90). Nothing is written by
\* the failing call. The feed adapter and the callees with a try block of their
\* own (crawl_wallet_transactions, process_transaction, the aggregate
\* recomputation, update_crawl_status) raise nothing.
RaiseInTree ==
    /\ stack # <<>>
    /\ \/ Top.pc = "enter" /\ Top.generation <= max_depth
       \/ Top.pc = "balance"
       \/ Top.pc = "process" /\ Top.i > Len(Top.all_transactions)
       \/ Top.pc = "recipients" /\ Top.j <= Len(Top.outbound)
    /\ crawl_status' = IF Top.pc = "enter"
                       THEN update_crawl_status(Top.address, "crawling")
                       ELSE crawl_status
    /\ stack' = SetTop([Top EXCEPT !.pc = "except"])
    /\ last' = [op |-> "raise", address |-> Top.address]
    /\ UNCHANGED <<ledger, mother_wallets, wallets, transactions, trades, wallet_lineages,
                   processed_signatures, queue, running, wallet_addresses, sessions,
                   ingested, suspended>>

\* Mutant of HandleError: the error leaves crawl_all_mother_wallets' loop.
HandleError_AbortsSeeds ==
    /\ stack # <<>>
    /\ Top.pc = "except"
    /\ crawl_status' = update_crawl_status(Top.address, "error")
    /\ stack' = <<>>
    /\ queue' = <<>>
    /\ last' = [op |-> "error", address |-> Top.address]
    /\ UNCHANGED <<ledger, mother_wallets, wallets, transactions, trades, wallet_lineages,
                   processed_signatures, running, wallet_addresses, sessions, ingested,
                   suspended>>

\* Mutant of HandleError: the handler records nothing.
HandleError_NoStatus ==
    /\ stack # <<>>
    /\ Top.pc = "except"
    /\ stack' = Pop
    /\ last' = [op |-> "error", address |-> Top.address]
    /\ UNCHANGED <<ledger, mother_wallets, wallets, transactions, trades, wallet_lineages,
                   crawl_status, processed_signatures, queue, running, wallet_addresses,
                   sessions, ingested, suspended>>

\* Mutant of HandleError: after recording 'error' the handler raises again, into
\* the caller's try block.
HandleError_Reraises ==
    /\ stack # <<>>
    /\ Top.pc = "except"
    /\ crawl_status' = update_crawl_status(Top.address, "error")
    /\ stack' = IF Len(stack) >= 2
                THEN [Pop EXCEPT ![Len(stack) - 1].pc = "except"]
                ELSE Pop
    /\ last' = [op |-> "error", address |-> Top.address]
    /\ UNCHANGED <<ledger, mother_wallets, wallets, transactions, trades, wallet_lineages,
                   processed_signatures, queue, running, wallet_addresses, sessions,
                   ingested, suspended>>

\* crawl_wallet_tree, lines 116-118: the handler records 'error' and the call
\* returns to its caller.
HandleError ==
    /\ stack # <<>>
    /\ Top.pc = "except"
    /\ crawl_status' = update_crawl_status(Top.address, "error")
    /\ stack' = Pop
    /\ last' = [op |-> "error", address |-> Top.address]
    /\ UNCHANGED <<ledger, mother_wallets, wallets, transactions, trades, wallet_lineages,
                   processed_signatures, queue, running, wallet_addresses, sessions,
                   ingested, suspended>>

Next ==
    \/ \E addresses \in SeedLists : StartCrawl(addresses)
    \/ NextSeed
    \/ EndSession
    \/ Enter
    \/ FetchBalance
    \/ FetchBatch
    \/ ProcessTx
    \/ ListOutbound
    \/ Descend
    \/ Skip
    \/ Finish

Spec == Init /\ [][Next]_vars

\* crawl_wallet_tree called on its own at a chosen generation, which stands for
\* the chain of callers above it: at the root, at the maximum depth, and above.
CallGenerations == {0, max_depth, max_depth + 1}

CallCrawlWalletTree(address, generation) ==
    /\ stack = <<>>
    /\ sessions < MaxSessions
    /\ stack' = <<Frame(address, generation = 0, Null, Null, generation)>>
    /\ processed_signatures' = {}
    /\ sessions' = sessions + 1
    /\ last' = [op |-> "crawl_wallet_tree", address |-> address,
                generation |-> generation]
    /\ UNCHANGED <<ledger, mother_wallets, wallets, transactions, trades, wallet_lineages,
                   crawl_status, queue, running, wallet_addresses, ingested, suspended>>

DepthNext ==
    \/ \E address \in {"M1", "W"}, generation \in CallGenerations :
          CallCrawlWalletTree(address, generation)
    \/ Enter
    \/ FetchBalance
    \/ FetchBatch
    \/ ProcessTx
    \/ ListOutbound
    \/ Descend
    \/ Skip
    \/ Finish

DepthSpec == Init /\ [][DepthNext]_vars

\* The crawl with database faults, on the shorter ledgers of plain transfers
\* among M1, M2 and W and the Raydium sale.
FaultSignatures == {"s01", "s05", "s06", "s08", "s14"}

FaultInit ==
    /\ Init
    /\ Len(ledger) <= MaxFaultTx
    /\ \A k \in 1..Len(ledger) : ledger[k].signature \in FaultSignatures

FaultNext ==
    \/ Next
    \/ RaiseInTree
    \/ HandleError

FaultSpec == FaultInit /\ [][FaultNext]_vars

\* A started session runs on: every coroutine of the crawl is awaited to its end,
\* so a step of the crawl that can be taken is taken. Requests and faults are not
\* owed.
CrawlStep ==
    \/ NextSeed
    \/ EndSession
    \/ Enter
    \/ FetchBalance
    \/ FetchBatch
    \/ ProcessTx
    \/ ListOutbound
    \/ Descend
    \/ Skip
    \/ Finish
    \/ HandleError

\* One session with faults, run to its end.
LiveNext == FaultNext /\ sessions' <= MaxLiveSessions

FairFaultSpec == FaultInit /\ [][LiveNext]_vars /\ WF_vars(CrawlStep)

----------------------------------------------------------------------------
(* A long history: the paging ceilings of crawl_wallet_transactions          *)

\* A ledger transaction that names the accounts and moves no tokens.
Filler(k, keys) ==
    Tx(ToString(k), keys, <<>>, <<>>, <<>>, {}, FALSE, "number")

\* max_batches full pages of history for M1: two transfers between M1 and W
\* and transactions naming M1 alone, but for MaxSharedTx transactions that
\* also name M2, which come after the first 4 * max_total_transactions.
PageLedger ==
    <<TxPool[1], TxPool[5]>>
    \o [k \in 1..(4 * max_total_transactions - 2) |-> Filler(k, <<"M1">>)]
    \o [k \in 1..MaxSharedTx |-> Filler(4 * max_total_transactions + k, <<"M1", "M2">>)]
    \o [k \in 1..(max_batches * PageLimit - 4 * max_total_transactions - MaxSharedTx) |->
            Filler(4 * max_total_transactions + MaxSharedTx + k, <<"M1">>)]

\* One start_crawl request: M1 four times over, M2, and M1 again.
PageSeeds == <<"M1", "M1", "M1", "M1", "M2", "M1">>

PageInit ==
    /\ ledger = PageLedger
    /\ mother_wallets = <<>>
    /\ wallets = <<>>
    /\ transactions = <<>>
    /\ trades = <<>>
    /\ wallet_lineages = <<>>
    /\ crawl_status = [a \in Addresses |-> "none"]
    /\ processed_signatures = {}
    /\ queue = <<>>
    /\ stack = <<>>
    /\ running = FALSE
    /\ wallet_addresses = <<>>
    /\ sessions = 0
    /\ ingested = {}
    /\ suspended = Idle
    /\ last = [op |-> "init"]

PageNext ==
    \/ StartCrawl(PageSeeds) /\ sessions' <= MaxLiveSessions
    \/ NextSeed
    \/ EndSession
    \/ Enter
    \/ FetchBalance
    \/ FetchBatch
    \/ ProcessTx
    \/ ListOutbound
    \/ Descend
    \/ Skip
    \/ Finish

PageSpec == PageInit /\ [][PageNext]_vars

\* ---- Failing feed calls ----
\* _make_rpc_call (solana_client.py 20-44) catches every exception of the HTTP
\* request, a timeout included, and returns None. Its callers turn None into
\* their fail-safe value: get_token_account_balance into 0.0, get_token_transactions
\* into [] when the signature listing failed, and into a page without the
\* transaction when one getTransaction failed.

\* The page crawl_wallet_transactions receives when a feed call of the listing
\* fails: "signatures" is the failure of getSignaturesForAddress, "detail" the
\* failure of the first getTransaction.
FailedPage(mode, page) ==
    IF mode = "signatures" \/ page = <<>> THEN <<>> ELSE Tail(page)

\* Mutant of FetchBalanceFails: the timeout leaves the adapter and reaches
\* crawl_wallet_tree's handler.
FetchBalanceFails_Raises ==
    /\ stack # <<>>
    /\ Top.pc = "balance"
    /\ stack' = SetTop([Top EXCEPT !.pc = "except", !.feed_failed = TRUE])
    /\ last' = [op |-> "balance_failed", address |-> Top.address]
    /\ UNCHANGED <<ledger, mother_wallets, wallets, transactions, trades, wallet_lineages,
                   crawl_status, processed_signatures, queue, running, wallet_addresses,
                   sessions, ingested, suspended>>

\* crawl_wallet_tree, lines 60-66, when getTokenAccountsByOwner fails: the
\* balance comes back as 0.0 and is stored.
FetchBalanceFails ==
    /\ stack # <<>>
    /\ Top.pc = "balance"
    /\ wallets' = [wallets EXCEPT ![Top.wallet_id].current_yaffa_balance = DefaultBalance]
    /\ stack' = SetTop([Top EXCEPT !.pc = "fetch", !.feed_failed = TRUE])
    /\ last' = [op |-> "balance_failed", address |-> Top.address]
    /\ UNCHANGED <<ledger, mother_wallets, transactions, trades, wallet_lineages,
                   crawl_status, processed_signatures, queue, running, wallet_addresses,
                   sessions, ingested, suspended>>

\* crawl_wallet_transactions, lines 172-212, when a feed call of the page fails:
\* the loop runs on the page the adapter returns.
FetchBatchFails ==
    /\ stack # <<>>
    /\ Top.pc = "fetch"
    /\ \E mode \in {"signatures", "detail"} :
       LET full == get_token_transactions(Top.address, Top.before_signature, PageLimit)
           page == FailedPage(mode, full)
           new == NewOf(page, 1, processed_signatures,
                        max_total_transactions - Len(Top.all_transactions))
           all == Top.all_transactions \o new
           done == \/ page = <<>>
                   \/ Len(all) >= max_total_transactions
                   \/ Len(page) < PageLimit
                   \/ Top.batch_count + 1 >= max_batches
       IN  /\ mode = "detail" => full # <<>>
           /\ processed_signatures' =
                  processed_signatures \cup { new[k].signature : k \in 1..Len(new) }
           /\ stack' = SetTop([Top EXCEPT
                  !.all_transactions = all,
                  !.pc = IF done THEN "process" ELSE "fetch",
                  !.before_signature = IF done \/ page = <<>> THEN @
                                       ELSE page[Len(page)].signature,
                  !.batch_count = IF done THEN @ ELSE @ + 1,
                  !.feed_failed = TRUE])
           /\ last' = [op |-> "fetch_failed", address |-> Top.address, mode |-> mode]
    /\ UNCHANGED <<ledger, mother_wallets, wallets, transactions, trades,
                   wallet_lineages, crawl_status, queue, running, wallet_addresses, sessions, ingested,
                   suspended>>

FeedFaultNext ==
    \/ Next
    \/ FetchBalanceFails
    \/ FetchBatchFails

FeedFaultSpec == FaultInit /\ [][FeedFaultNext]_vars

\* ---- Malformed transactions ----
\* Transactions whose body makes parse_yaffa_transfers raise while it builds an
\* entry (solana_client.py 167-177): s15 has a token balance whose accountIndex
\* is outside accountKeys, after two well-formed balances (M1 sends 30 to X);
\* s16 has no blockTime.
MalformedPool ==
    << Tx("s15", <<"M1", "X", "W">>, <<5000, 5000, 5000>>, <<5000, 5000, 5000>>,
          <<<<1, 100, 40>>, <<2, 0, 30>>, <<5, 0, 30>>>>, {TokenProgram}, FALSE, "number"),
       Tx("s16", <<"M1", "W">>, <<5000, 5000>>, <<5000, 5000>>,
          <<<<1, 100, 50>>, <<2, 0, 50>>>>, {TokenProgram}, FALSE, "missing") >>

\* Histories with one malformed transaction, alone, before or after well-formed
\* ones.
MalformedLedgers ==
    LET bad == { MalformedPool[k] : k \in 1..Len(MalformedPool) }
        good == { g \in Ledgers : /\ Len(g) <= MaxFaultTx
                                  /\ \A k \in 1..Len(g) : g[k].signature \in FaultSignatures }
    IN  { <<b>> : b \in bad }
        \cup { <<b>> \o g : b \in bad, g \in good }
        \cup { g \o <<b>> : b \in bad, g \in good }

MalformedInit ==
    /\ ledger \in MalformedLedgers
    /\ mother_wallets = <<>>
    /\ wallets = <<>>
    /\ transactions = <<>>
    /\ trades = <<>>
    /\ wallet_lineages = <<>>
    /\ crawl_status = [a \in Addresses |-> "none"]
    /\ processed_signatures = {}
    /\ queue = <<>>
    /\ stack = <<>>
    /\ running = FALSE
    /\ wallet_addresses = <<>>
    /\ sessions = 0
    /\ ingested = {}
    /\ suspended = Idle
    /\ last = [op |-> "init"]

MalformedSpec == MalformedInit /\ [][Next]_vars

\* ---- Token movement without native movement ----
\* Transactions that change the crawled wallet's token balance and no lamport
\* balance: s12 of the pool (M1 gives 100 to the pool account P through
\* Raydium), and s17, which changes the token balance of M1 alone (a burn).
TokenOnlyPool ==
    << TxPool[12],
       Tx("s17", <<"M1">>, <<5000>>, <<5000>>, <<<<1, 100, 70>>>>, {TokenProgram},
          FALSE, "number") >>

\* Histories with one such transaction, alone, before or after others.
TokenOnlyLedgers ==
    LET only == { TokenOnlyPool[k] : k \in 1..Len(TokenOnlyPool) }
        good == { g \in Ledgers : /\ Len(g) <= MaxFaultTx
                                  /\ \A k \in 1..Len(g) : g[k].signature \in FaultSignatures }
    IN  { <<b>> : b \in only }
        \cup { <<b>> \o g : b \in only, g \in good }
        \cup { g \o <<b>> : b \in only, g \in good }

TokenOnlyInit ==
    /\ ledger \in TokenOnlyLedgers
    /\ mother_wallets = <<>>
    /\ wallets = <<>>
    /\ transactions = <<>>
    /\ trades = <<>>
    /\ wallet_lineages = <<>>
    /\ crawl_status = [a \in Addresses |-> "none"]
    /\ processed_signatures = {}
    /\ queue = <<>>
    /\ stack = <<>>
    /\ running = FALSE
    /\ wallet_addresses = <<>>
    /\ sessions = 0
    /\ ingested = {}
    /\ suspended = Idle
    /\ last = [op |-> "init"]

TokenOnlySpec == TokenOnlyInit /\ [][Next]_vars

\* ---- A trade for one party, a transfer for the other ----
\* s18: M2 sends 40 to M1 and M1 pays the fee. For M1 the token balance rises and
\* the lamport balance falls, which detect_raydium_interaction takes for a buy;
\* for M2 only the token balance moves.
TradeViewPool == << Plain("s18", "M2", "M1", 40, 0, 5) >>

TradeViewLedgers ==
    LET special == { TradeViewPool[k] : k \in 1..Len(TradeViewPool) }
        good == { g \in Ledgers : /\ Len(g) <= MaxFaultTx
                                  /\ \A k \in 1..Len(g) : g[k].signature \in FaultSignatures }
    IN  { <<b>> : b \in special }
        \cup { <<b>> \o g : b \in special, g \in good }
        \cup { g \o <<b>> : b \in special, g \in good }

TradeViewInit ==
    /\ ledger \in TradeViewLedgers
    /\ mother_wallets = <<>>
    /\ wallets = <<>>
    /\ transactions = <<>>
    /\ trades = <<>>
    /\ wallet_lineages = <<>>
    /\ crawl_status = [a \in Addresses |-> "none"]
    /\ processed_signatures = {}
    /\ queue = <<>>
    /\ stack = <<>>
    /\ running = FALSE
    /\ wallet_addresses = <<>>
    /\ sessions = 0
    /\ ingested = {}
    /\ suspended = Idle
    /\ last = [op |-> "init"]

TradeViewSpec == TradeViewInit /\ [][Next]_vars

\* ---- Two sessions at once ----
\* start_crawl and run_crawler are coroutines of one event loop, and every
\* Supabase call is a blocking call: a coroutine gives way only where it awaits
\* the feed or a sleep. That is the balance request (line 60), a page request
\* and the sleeps of the paging loop (lines 174, 207), and the sleep between two
\* seeds (line 26); a background task that has not begun or has ended is not
\* running at all. Everything between two such points runs without the other
\* session. Each run_crawler has its own WalletCrawler: processed_signatures,
\* the seed loop and the call stack belong to the session, the tables to both.

AtAwait ==
    \/ stack = <<>>
    \/ stack # <<>> /\ Top.pc \in {"balance", "fetch"}

\* The event loop resumes the other session.
Switch ==
    /\ AtAwait
    /\ suspended' = [processed_signatures |-> processed_signatures, queue |-> queue,
                     stack |-> stack, running |-> running,
                     wallet_addresses |-> wallet_addresses]
    /\ processed_signatures' = suspended.processed_signatures
    /\ queue' = suspended.queue
    /\ stack' = suspended.stack
    /\ running' = suspended.running
    /\ wallet_addresses' = suspended.wallet_addresses
    /\ last' = [op |-> "switch"]
    /\ UNCHANGED <<ledger, mother_wallets, wallets, transactions, trades, wallet_lineages,
                   crawl_status, sessions, ingested>>

ConcurrentNext ==
    \/ Next
    \/ Switch

ConcurrentSpec == FaultInit /\ [][ConcurrentNext]_vars

----------------------------------------------------------------------------
(* get_or_create_wallet and record_raydium_trade called on their own.        *)
(* Under Spec no trades row is ever written (the timestamp fault above), so  *)
(* the lookup of record_raydium_trade is exercised here, on the ledger's     *)
(* bodies as delivered and with the blockTime key absent.                    *)

\* get_or_create_wallet(address, is_mother=True)
GetOrCreateWallet(address) ==
    /\ StoreDb(get_or_create_wallet(Db, address, TRUE, Null, Null, 0).db)
    /\ last' = [op |-> "get_or_create_wallet", address |-> address]
    /\ UNCHANGED <<ledger, crawl_status, processed_signatures, queue, stack, running,
                   wallet_addresses, sessions, ingested, suspended>>

\* record_raydium_trade(wallet, raydium_data, transaction): raydium_data is what
\* detect_raydium_interaction makes of the ledger's body for the wallet.
RecordRaydiumTrade(wallet_id, k, blockTime) ==
    LET body == ledger[k]
        raydium_data == detect_raydium_interaction(wallets[wallet_id].address,
                            parse_yaffa_transfers(body), body)
        tx == [body EXCEPT !.blockTime = blockTime]
    IN  /\ raydium_data.type # "none"
        /\ Len(trades) < MaxTrades
        /\ StoreDb(record_raydium_trade(Db, wallet_id, raydium_data, tx))
        /\ last' = [op |-> "record_raydium_trade", wallet_id |-> wallet_id,
                    signature |-> body.signature, blockTime |-> blockTime,
                    existed |-> \E i \in 1..Len(trades) :
                                   /\ trades[i].transaction_hash = body.signature
                                   /\ trades[i].wallet_id = wallet_id,
                    trades_before |-> Len(trades)]
        /\ UNCHANGED <<ledger, crawl_status, processed_signatures, queue, stack,
                       running, wallet_addresses, sessions, ingested, suspended>>

TradeNext ==
    \/ \E address \in {"M1", "W"} : GetOrCreateWallet(address)
    \/ \E wallet_id \in 1..Len(wallets), k \in 1..Len(ledger),
          blockTime \in {"number", "missing"} :
             RecordRaydiumTrade(wallet_id, k, blockTime)

TradeSpec == Init /\ [][TradeNext]_vars

\* process_transaction(wallet, transaction) called on a stored wallet with a
\* body of the ledger.
CallProcessTransaction(wallet_id, k) ==
    /\ StoreDb(process_transaction(Db, wallet_id, ledger[k]))
    /\ last' = [op |-> "process_transaction", wallet_id |-> wallet_id,
                signature |-> ledger[k].signature]
    /\ UNCHANGED <<ledger, crawl_status, processed_signatures, queue, stack, running,
                   wallet_addresses, sessions, ingested, suspended>>

\* calculate_wallet_totals(wallet) called on a stored wallet.
CallCalculateWalletTotals(wallet_id) ==
    /\ wallets' = calculate_wallet_totals(Db, wallet_id)
    /\ last' = [op |-> "calculate_wallet_totals", wallet_id |-> wallet_id]
    /\ UNCHANGED <<ledger, mother_wallets, transactions, trades, wallet_lineages,
                   crawl_status, processed_signatures, queue, stack, running,
                   wallet_addresses, sessions, ingested, suspended>>

TotalsNext ==
    \/ TradeNext
    \/ \E wallet_id \in 1..Len(wallets), k \in 1..Len(ledger) :
          CallProcessTransaction(wallet_id, k)
    \/ \E wallet_id \in 1..Len(wallets) : CallCalculateWalletTotals(wallet_id)

\* The direct calls are made over ledgers of the transactions that give the
\* seeds M1 and W transfers, a sale and a purchase.
TotalsSignatures == {"s01", "s05", "s08", "s13"}

TotalsInit ==
    /\ Init
    /\ Len(ledger) <= MaxTotalsTx
    /\ \A k \in 1..Len(ledger) : ledger[k].signature \in TotalsSignatures

TotalsSpec == TotalsInit /\ [][TotalsNext]_vars

----------------------------------------------------------------------------
(* Helpers of the claims *)

\* The parsed entries of tx are exactly: address a lost n tokens, address b
\* gained n tokens.
Moves(tx, a, b, n) ==
    LET e == parse_yaffa_transfers(tx)
    IN  /\ Len(e) = 2
        /\ \E x, y \in 1..2 :
              /\ x # y
              /\ e[x].account = a /\ e[x].amount_change = -n
              /\ e[y].account = b /\ e[y].amount_change = n

HasDexProgram(tx) == tx.programs \cap raydium_programs # {}

\* tx is a direct transfer of n from a to b: no DEX program, no native gain for a.
DirectSend(tx, a, b, n) ==
    /\ n > 0 /\ a # b
    /\ Moves(tx, a, b, n)
    /\ ~HasDexProgram(tx)
    /\ get_sol_balance_change(a, tx) <= 0

RowsOfSignature(signature) ==
    { i \in 1..Len(transactions) : transactions[i].original_signature = signature }

TradesOf(signature, wallet_id) ==
    { i \in 1..Len(trades) :
        trades[i].transaction_hash = signature /\ trades[i].wallet_id = wallet_id }

\* The last step ingested a transaction not yet recorded.
Ingested == last.op = "process" /\ last.classified # "known"

\* The aggregates of wallet id were recomputed by the last step.
Recomputed(id) ==
    \/ last.op = "calculate_wallet_totals" /\ last.wallet_id = id
    \/ last.op = "finish" /\ WalletIdOf(wallets, last.address) = id

\* The sum of F[i] over the indices i of I.
RECURSIVE SumOver(_, _)
SumOver(I, F) ==
    IF I = {} THEN 0
    ELSE LET i == CHOOSE x \in I : TRUE IN F[i] + SumOver(I \ {i}, F)

AmountOf == [i \in 1..Len(transactions) |-> transactions[i].yaffa_amount]
SentRows(id) == { i \in 1..Len(transactions) : transactions[i].from_wallet_id = id }
ReceivedRows(id) == { i \in 1..Len(transactions) : transactions[i].to_wallet_id = id }
TradeRows(id, type) ==
    { i \in 1..Len(trades) : trades[i].wallet_id = id /\ trades[i].trade_type = type }

\* The wallets table with every aggregate field of wallet id set to v.
WithAggregates(w, id, v) ==
    [w EXCEPT ![id] =
        [@ EXCEPT !.total_yaffa_received = v, !.total_yaffa_sent = v,
                  !.total_yaffa_sold = v, !.total_yaffa_bought = v,
                  !.total_sol_received = v, !.total_sol_spent = v,
                  !.net_yaffa_balance = v, !.net_sol_balance = v,
                  !.lineage_yaffa_received = v, !.lineage_yaffa_balance = v,
                  !.lineage_count = v]]

----------------------------------------------------------------------------
(* Claims *)

\* C1: for every ledger signature and every sender->recipient pair there is at
\* most one transactions row with that original signature.
C1_OneRowPerSignatureAndPair ==
    \A i, j \in 1..Len(transactions) :
        ( /\ transactions[i].original_signature = transactions[j].original_signature
          /\ transactions[i].from_wallet_id = transactions[j].from_wallet_id
          /\ transactions[i].to_wallet_id = transactions[j].to_wallet_id ) => i = j

\* C1 witness: a later session, whose signature set started empty, has just
\* processed a signature that already has a transactions row.
C1_Witness ==
    /\ sessions = 2
    /\ last.op = "process"
    /\ last.classified = "known"
    /\ RowsOfSignature(last.signature) # {}

\* C2: there is at most one trades row per (transaction_hash, wallet_id), and
\* record_raydium_trade on a signature and wallet that have a trades row
\* inserts none.
C2_OneTradePerSignatureAndWallet ==
    /\ \A i, j \in 1..Len(trades) :
          ( /\ trades[i].transaction_hash = trades[j].transaction_hash
            /\ trades[i].wallet_id = trades[j].wallet_id ) => i = j
    /\ (last.op = "record_raydium_trade" /\ last.existed)
       => Len(trades) = last.trades_before

\* C2 witness: record_raydium_trade has just been called, on a body it would
\* have taken a row from, for a signature and wallet whose trades row existed.
C2_Witness ==
    /\ last.op = "record_raydium_trade"
    /\ last.existed
    /\ last.blockTime = "missing"
    /\ Cardinality(TradesOf(last.signature, last.wallet_id)) = 1
    /\ Len(trades) = last.trades_before

\* C3: no two wallets rows have the same address.
C3_UniqueWalletAddress ==
    \A i, j \in 1..Len(wallets) : wallets[i].address = wallets[j].address => i = j

\* C3 witness: a seed whose row was created as a counterparty of another seed's
\* transfer has been crawled, and its row is the sender of one recorded transfer
\* and the recipient of another.
C3_Witness ==
    \E w \in 1..Len(wallets) :
        /\ wallets[w].address \in {"M1", "M2"}
        /\ wallets[w].discovered_by_mother # Null
        /\ crawl_status[wallets[w].address] = "completed"
        /\ \E i, j \in 1..Len(transactions) :
              transactions[i].from_wallet_id = w /\ transactions[j].to_wallet_id = w

\* C9: there is at most one wallet_lineages row per (wallet_id, mother_wallet_id)
\* and no row names the wallet's primary mother.
C9_LineageUnique ==
    /\ \A i, j \in 1..Len(wallet_lineages) :
          ( /\ wallet_lineages[i].wallet_id = wallet_lineages[j].wallet_id
            /\ wallet_lineages[i].mother_wallet_id = wallet_lineages[j].mother_wallet_id )
          => i = j
    /\ \A i \in 1..Len(wallet_lineages) :
          wallet_lineages[i].mother_wallet_id #
              wallets[wallet_lineages[i].wallet_id].mother_wallet_id

\* C9 witness: a lineage edge (w, m) exists and a second transfer to w
\* discovered by m from an attributed sender has just been recorded, so the
\* handler met the existing edge.
C9_Witness ==
    /\ Ingested
    /\ Len(transactions) > last.transactions_before
    /\ Len(wallet_lineages) = last.lineages_before
    /\ LET row == transactions[Len(transactions)]
       IN  /\ wallets[row.from_wallet_id].mother_wallet_id # Null
           /\ \E i \in 1..Len(wallet_lineages) :
                 /\ wallet_lineages[i].wallet_id = row.to_wallet_id
                 /\ wallet_lineages[i].mother_wallet_id = row.discovering_mother_id

\* C4: when the crawl of A ingests a direct transfer of n tokens from A to B,
\* exactly one transactions row has that signature, and it is A -> B, amount n,
\* type 'transfer'. (Violated: the row is recorded B -> A.)
C4_SenderIsTheAccountThatLost ==
    \A b \in Addresses, n \in 1..100 :
        (Ingested /\ DirectSend(last.tx, last.address, b, n))
        => /\ Cardinality(RowsOfSignature(last.signature)) = 1
           /\ \A i \in RowsOfSignature(last.signature) :
                 /\ wallets[transactions[i].from_wallet_id].address = last.address
                 /\ wallets[transactions[i].to_wallet_id].address = b
                 /\ transactions[i].yaffa_amount = n
                 /\ transactions[i].transaction_type = "transfer"

\* C5: when the crawl of an attributed, non-external wallet A ingests a direct
\* transfer from A to an address B that had no row, B's row has A's mother, A as
\* parent, is_external = false and generation = A.generation + 1.
\* (Violated: B is created as an external sender.)
C5_RecipientInheritsLineage ==
    \A b \in Addresses, n \in 1..100 :
        ( /\ Ingested
          /\ DirectSend(last.tx, last.address, b, n)
          /\ wallets[last.wallet_id].mother_wallet_id # Null
          /\ ~wallets[last.wallet_id].is_external
          /\ WalletIdOf(wallets, b) > last.wallets_before )
        => LET row == wallets[WalletIdOf(wallets, b)]
           IN  /\ row.mother_wallet_id = wallets[last.wallet_id].mother_wallet_id
               /\ row.parent_wallet_id = last.wallet_id
               /\ ~row.is_external
               /\ row.generation = wallets[last.wallet_id].generation + 1

\* C6: when the crawl of A ingests a transaction through a known DEX program in
\* which A's token balance falls by 100 and its native balance rises by 2.5,
\* exactly one trades row exists for A and the signature, a 'sell' of 100 for
\* 2.5 at price sol_amount / yaffa_amount, and no transactions row has the
\* signature. (Violated: no trades row is written.)
C6_DexSellRecordedAsTrade ==
    ( /\ Ingested
      /\ HasDexProgram(last.tx)
      /\ WalletYaffaChange(last.address, parse_yaffa_transfers(last.tx)) = -100
      /\ 2 * get_sol_balance_change(last.address, last.tx) = 5 * LamportsPerSol )
    => /\ Cardinality(TradesOf(last.signature, last.wallet_id)) = 1
       /\ \A i \in TradesOf(last.signature, last.wallet_id) :
             /\ trades[i].trade_type = "sell"
             /\ trades[i].yaffa_amount = 100
             /\ 2 * trades[i].sol_amount = 5 * LamportsPerSol
             /\ trades[i].price_per_token = trades[i].sol_amount \div trades[i].yaffa_amount
       /\ RowsOfSignature(last.signature) = {}

\* C7: a transaction is taken for a DEX trade of the crawled wallet, and a
\* trades row exists for a signature, only if one of the transaction's
\* instructions runs a program of the DEX allowlist. (Violated: a recipient that
\* pays the fee is taken for a buy.)
C7_TradeOnlyThroughDexProgram ==
    /\ (last.op = "process" /\ last.classified \in {"sell", "buy"})
       => HasDexProgram(last.tx)
    /\ \A i \in 1..Len(trades) :
          \A k \in 1..Len(ledger) :
              ledger[k].signature = trades[i].transaction_hash => HasDexProgram(ledger[k])

\* C8: seeds M1, M2 crawled in that order in one session, M1 sends to W, M2
\* sends to X, X sends to W: when the session ends W's mother is M1, X's mother
\* is M2 and a wallet_lineages row (W, M2) exists. (Violated: W and X are
\* recorded as external senders.)
C8_SecondLineageRecorded ==
    ( /\ ledger = <<TxPool[1], TxPool[2], TxPool[3]>>
      /\ wallet_addresses = <<"M1", "M2">>
      /\ sessions = 1
      /\ last.op = "end_session" )
    => LET w == WalletIdOf(wallets, "W")
           x == WalletIdOf(wallets, "X")
           m1 == MotherIdOf(mother_wallets, "M1")
           m2 == MotherIdOf(mother_wallets, "M2")
       IN  /\ w # Null /\ x # Null
           /\ wallets[w].mother_wallet_id = m1
           /\ wallets[x].mother_wallet_id = m2
           /\ \E i \in 1..Len(wallet_lineages) :
                 wallet_lineages[i].wallet_id = w /\ wallet_lineages[i].mother_wallet_id = m2

\* C10: every wallet with a parent has its parent's generation plus 1.
\* (Violated: crawl_wallet_tree rewrites a recipient's generation to that of the
\* call plus 1, whatever its parent's stored generation.)
C10_GenerationIsParentPlusOne ==
    \A w \in 1..Len(wallets) :
        wallets[w].parent_wallet_id # Null
        => wallets[w].generation = wallets[wallets[w].parent_wallet_id].generation + 1

\* C11: a crawl_wallet_tree call above the maximum depth returns with no table,
\* no crawl_status row and no signature set changed, and every call that went
\* past the guard has a generation of at most the maximum depth.
C11_NoOpAboveMaxDepth ==
    /\ [][ (stack # <<>> /\ Top.pc = "enter" /\ Top.generation > max_depth)
           => /\ stack' = Pop
              /\ UNCHANGED <<ledger, mother_wallets, wallets, transactions, trades,
                             wallet_lineages, crawl_status, processed_signatures, suspended>> ]_vars
    /\ [](\A k \in 1..Len(stack) :
              stack[k].pc # "enter" => stack[k].generation <= max_depth)

\* C11 witness: a call at the maximum depth has recursed into a recipient, and
\* that call, at generation max_depth + 1, has just returned at the guard.
C11_Witness ==
    /\ last.op = "max_depth"
    /\ stack # <<>>
    /\ Top.generation = max_depth
    /\ Top.pc = "recipients"

C14_StatusOnlyMovesForward ==
    [][\A a \in Addresses :
          /\ (crawl_status'[a] \in {"completed", "error"} /\ crawl_status'[a] # crawl_status[a])
                => crawl_status[a] = "crawling"
          /\ crawl_status[a] \in {"completed", "error"} => crawl_status'[a] # "crawling"]_vars

\* C15: immediately after the aggregates of wallet w are recomputed,
\* total_yaffa_sent and total_yaffa_received are the sums of the amounts of the
\* transactions rows from and to w, the sold/bought and SOL totals are the sums
\* over w's 'sell' and 'buy' trades, net_yaffa_balance = received + bought -
\* sent - sold, net_sol_balance = sol_received - sol_spent, and
\* lineage_yaffa_balance = lineage_received - sent - sold.
C15_AggregatesAreTheSums ==
    \A id \in 1..Len(wallets) : Recomputed(id) =>
        LET w == wallets[id]
            sent == SumOver(SentRows(id), AmountOf)
            received == SumOver(ReceivedRows(id), AmountOf)
            sold == SumOver(TradeRows(id, "sell"),
                        [i \in 1..Len(trades) |-> trades[i].yaffa_amount])
            sol_received == SumOver(TradeRows(id, "sell"),
                        [i \in 1..Len(trades) |-> trades[i].sol_amount])
            bought == SumOver(TradeRows(id, "buy"),
                        [i \in 1..Len(trades) |-> trades[i].yaffa_amount])
            sol_spent == SumOver(TradeRows(id, "buy"),
                        [i \in 1..Len(trades) |-> trades[i].sol_amount])
        IN  /\ w.total_yaffa_sent = sent
            /\ w.total_yaffa_received = received
            /\ w.total_yaffa_sold = sold
            /\ w.total_sol_received = sol_received
            /\ w.total_yaffa_bought = bought
            /\ w.total_sol_spent = sol_spent
            /\ w.net_yaffa_balance = received + bought - sent - sold
            /\ w.net_sol_balance = sol_received - sol_spent
            /\ w.lineage_yaffa_balance = w.lineage_yaffa_received - sent - sold

\* C15 witness: a wallet with a sale and a purchase on record has just been
\* recomputed, and its net balance is not zero.
C15_Witness ==
    \E id \in 1..Len(wallets) :
        /\ Recomputed(id)
        /\ wallets[id].total_yaffa_sold > 0
        /\ wallets[id].total_yaffa_bought > 0
        /\ wallets[id].net_yaffa_balance # 0

\* C16: immediately after the aggregates of wallet w are recomputed,
\* lineage_yaffa_received is the sum of the amounts of w's inbound transactions
\* whose sender has a non-null mother_wallet_id at that moment: summing by the
\* is_lineage_transfer flag stored with the row gives what looking up the
\* sender's mother gives.
C16_LineageReceivedIsBySendersMother ==
    \A id \in 1..Len(wallets) : Recomputed(id) =>
        LET by_lookup == { i \in ReceivedRows(id) : is_lineage_transfer(Db, transactions[i]) }
            by_flag == { i \in ReceivedRows(id) : transactions[i].is_lineage_transfer }
        IN  /\ wallets[id].lineage_yaffa_received = SumOver(by_lookup, AmountOf)
            /\ SumOver(by_flag, AmountOf) = SumOver(by_lookup, AmountOf)

\* C16 witness: a wallet that received from a sender with a mother and from a
\* sender without one has just been recomputed.
C16_Witness ==
    \E id \in 1..Len(wallets) :
        /\ Recomputed(id)
        /\ wallets[id].lineage_yaffa_received > 0
        /\ wallets[id].total_yaffa_received > wallets[id].lineage_yaffa_received

\* C17: immediately after the aggregates of wallet w are recomputed,
\* lineage_count is the number of distinct non-null mothers among w's primary
\* mother_wallet_id and the mother_wallet_id of w's wallet_lineages rows.
C17_LineageCountIsDistinctMothers ==
    \A id \in 1..Len(wallets) : Recomputed(id) =>
        LET edges == { i \in 1..Len(wallet_lineages) : wallet_lineages[i].wallet_id = id }
            mothers == {wallets[id].mother_wallet_id}
                           \cup { wallet_lineages[i].mother_wallet_id : i \in edges }
        IN  wallets[id].lineage_count = Cardinality({ m \in mothers : m # Null })

\* C17 witness: a wallet with a primary mother and an edge to a second mother
\* has just been recomputed.
C17_Witness ==
    \E id \in 1..Len(wallets) :
        /\ Recomputed(id)
        /\ wallets[id].mother_wallet_id # Null
        /\ \E i \in 1..Len(wallet_lineages) : wallet_lineages[i].wallet_id = id
        /\ wallets[id].lineage_count = 2

\* C18: recomputing the aggregates is idempotent and a function of the
\* persisted facts only: a second recomputation of the same wallet right after
\* the first, with no transactions, trades or wallet_lineages change between,
\* leaves every aggregate field as it is, and the result does not depend on the
\* aggregate values the wallet had stored before.
C18_RecomputeIsIdempotent ==
    \A id \in 1..Len(wallets) :
        /\ Recomputed(id) => calculate_wallet_totals(Db, id) = wallets
        /\ \A v \in {0, 7} :
              calculate_wallet_totals([Db EXCEPT !.w = WithAggregates(wallets, id, v)], id)
                  = calculate_wallet_totals(Db, id)

\* C18 witness: a wallet with transfers received and a sale on record has just
\* been recomputed.
C18_Witness ==
    \E id \in 1..Len(wallets) :
        /\ Recomputed(id)
        /\ wallets[id].total_yaffa_received > 0
        /\ wallets[id].total_yaffa_sold > 0

\* C19: re-ingesting a transaction already processed for a wallet (same wallet,
\* same signature, in the same or a later session) is a no-op on the fact
\* tables: transactions, trades, wallets and wallet_lineages hold the same rows
\* before and after.
C19_ReingestIsNoOp ==
    [][(last'.op = "process" /\ last'.again)
          => UNCHANGED <<transactions, trades, wallets, wallet_lineages>>]_vars

\* C19 witness: a transaction whose transfer is on record has just been
\* ingested again for the same wallet.
C19_Witness ==
    /\ last.op = "process"
    /\ last.again
    /\ HasSignature(transactions, last.signature)
    /\ \E i \in RowsOfSignature(last.signature) :
          last.wallet_id \in {transactions[i].from_wallet_id, transactions[i].to_wallet_id}

\* C20: no transactions row has from_wallet_id equal to to_wallet_id: a
\* balance-change entry whose account is the crawled wallet's own address
\* never produces a row.
C20_NoSelfTransferRow ==
    \A i \in 1..Len(transactions) :
        /\ transactions[i].from_wallet_id # transactions[i].to_wallet_id
        /\ wallets[transactions[i].from_wallet_id].address
              # wallets[transactions[i].to_wallet_id].address

\* C20 witness: a transaction with an entry for the crawled wallet's own address
\* has just been ingested and a row was written for its other entry.
C20_Witness ==
    /\ last.op = "process"
    /\ Len(transactions) > last.transactions_before
    /\ \E k \in 1..Len(parse_yaffa_transfers(last.tx)) :
          parse_yaffa_transfers(last.tx)[k].account = last.address

C22_OneRowPerCounterparty ==
    (Ingested /\ last.classified = "transfer") =>
        \A k \in 1..Len(parse_yaffa_transfers(last.tx)) :
            LET account == parse_yaffa_transfers(last.tx)[k].account
            IN  account # last.address =>
                    \E i \in RowsOfSignature(last.signature) :
                        account \in {wallets[transactions[i].from_wallet_id].address,
                                     wallets[transactions[i].to_wallet_id].address}

\* C23: transaction ingestion for one wallet makes at most max_batches page
\* fetches and collects at most max_total_transactions transactions, and stops
\* on an empty page or a page shorter than the page size; a ceiling is no
\* error: what was collected is processed and the crawl of the wallet ends
\* with its status 'completed'.
C23_PagingCeilings ==
    /\ [](\A k \in 1..Len(stack) :
             /\ Len(stack[k].all_transactions) <= max_total_transactions
             /\ stack[k].batch_count < max_batches)
    /\ [][(stack # <<>> /\ Top.pc = "fetch") =>
            LET page == get_token_transactions(Top.address, Top.before_signature,
                                               PageLimit)
            IN  /\ Len(stack') = Len(stack)
                /\ stack'[Len(stack)].pc \in {"fetch", "process"}
                /\ stack'[Len(stack)].pc = "fetch" =>
                      /\ Len(page) = PageLimit
                      /\ stack'[Len(stack)].batch_count = Top.batch_count + 1
                /\ (page = <<>> \/ Len(page) < PageLimit) =>
                      stack'[Len(stack)].pc = "process"]_vars
    /\ [][(stack # <<>> /\ Top.pc = "process" /\ stack' # stack) =>
            /\ Len(stack') = Len(stack)
            /\ \/ stack'[Len(stack)].pc = "process" /\ stack'[Len(stack)].i = Top.i + 1
               \/ stack'[Len(stack)].pc = "recipients" /\ Top.i > Len(Top.all_transactions)]_vars
    /\ [](last.op = "finish" => crawl_status[last.address] = "completed")

\* C23 witness: the paging loop has just stopped at max_total_transactions
\* collected transactions, with history left to fetch, and goes on to process
\* them.
C23_Witness ==
    /\ last.op = "fetch"
    /\ stack # <<>>
    /\ Top.pc = "process"
    /\ Len(Top.all_transactions) = max_total_transactions
    /\ Top.batch_count < max_batches - 1
    /\ crawl_status[Top.address] = "crawling"

\* The crawl of a wallet has ended 'completed' after max_batches full pages
\* that held some, but fewer than max_total_transactions, new transactions.
BatchCeilingHit ==
    /\ last.op = "finish"
    /\ last.batch_count = max_batches - 1
    /\ last.collected > 0
    /\ last.collected < max_total_transactions
    /\ crawl_status[last.address] = "completed"

\* C24 (refuted by the code): when a feed call made for a wallet failed, the
\* wallet's crawl ends with status 'error'.
C24_FeedFailureEndsInError ==
    (last.op = "finish" /\ last.feed_failed) => crawl_status[last.address] = "error"

\* C25: a failing feed call does not leave the adapter as an exception. The
\* caller receives balance 0 or a page without the failed part and goes on: the
\* call stack with every ancestor stays, no status changes, the seeds still
\* queued stay queued, the session stays open, and no call of the session ever
\* reaches the handler or the status 'error'.
C25_FeedFailureNeverRaises ==
    /\ [][ last'.op \in {"balance_failed", "fetch_failed"} =>
             /\ Len(stack') = Len(stack)
             /\ SubSeq(stack', 1, Len(stack) - 1) = Pop
             /\ stack'[Len(stack')].pc \in {"fetch", "process"}
             /\ crawl_status' = crawl_status
             /\ queue' = queue
             /\ running' = running
             /\ last'.op = "balance_failed" =>
                    wallets'[Top.wallet_id].current_yaffa_balance = DefaultBalance
             /\ (last'.op = "fetch_failed" /\ last'.mode = "signatures") =>
                    /\ stack'[Len(stack')].all_transactions = Top.all_transactions
                    /\ stack'[Len(stack')].pc = "process" ]_vars
    /\ [](\A k \in 1..Len(stack) : stack[k].pc # "except")
    /\ [](\A a \in Addresses : crawl_status[a] # "error")

\* A child's feed call failed below a seed whose crawl is still open, with
\* another seed still queued.
C25_Witness ==
    /\ last.op \in {"balance_failed", "fetch_failed"}
    /\ Len(stack) >= 2
    /\ queue # <<>>
    /\ running

\* C26: mother_wallets holds exactly one row per seed address: no two rows share
\* an address, every address of a requested seed list has a row, a row is only
\* ever added for an address of the requested list, and no step deletes or
\* changes a row that exists.
C26_OneMotherRowPerSeed ==
    /\ [](\A i, j \in 1..Len(mother_wallets) :
              mother_wallets[i].address = mother_wallets[j].address => i = j)
    /\ [](\A k \in 1..Len(wallet_addresses) :
              MotherIdOf(mother_wallets, wallet_addresses[k]) # Null)
    /\ [][ /\ Len(mother_wallets') >= Len(mother_wallets)
           /\ SubSeq(mother_wallets', 1, Len(mother_wallets)) = mother_wallets
           /\ \A i \in (Len(mother_wallets) + 1)..Len(mother_wallets') :
                  \E k \in 1..Len(wallet_addresses') :
                      wallet_addresses'[k] = mother_wallets'[i].address ]_vars

\* C26 witness: a second request names twice the one address the first request
\* registered; the table still holds its single row.
C26_Witness ==
    /\ last.op = "start_crawl"
    /\ sessions = 2
    /\ wallet_addresses = <<"M1", "M1">>
    /\ Len(mother_wallets) = 1
    /\ mother_wallets[1].address = "M1"

\* C27 (refuted by the code): when the crawl of a seed has completed, the seed's
\* wallets row has generation 0 and its own mother_wallets row as mother.
C27_SeedRowOwnsItself ==
    (last.op = "finish" /\ last.is_mother_wallet) =>
        LET id == WalletIdOf(wallets, last.address)
        IN  /\ id # Null
            /\ wallets[id].generation = 0
            /\ wallets[id].mother_wallet_id = MotherIdOf(mother_wallets, last.address)

\* C29: a transaction the ledger marks failed leaves no trace: processing it for
\* any wallet changes none of the tables wallets, transactions, trades and
\* wallet_lineages, and no transactions or trades row ever carries the
\* signature of a failed transaction.
C29_FailedTransactionLeavesNoRow ==
    /\ [][ (last'.op = "process" /\ last'.tx.err) =>
              /\ wallets' = wallets
              /\ transactions' = transactions
              /\ trades' = trades
              /\ wallet_lineages' = wallet_lineages ]_vars
    /\ [](\A k \in 1..Len(ledger) :
              ledger[k].err =>
                  /\ RowsOfSignature(ledger[k].signature) = {}
                  /\ \A i \in 1..Len(trades) :
                         trades[i].transaction_hash # ledger[k].signature)

\* C29 witness: a crawl has just processed a failed transaction in which token
\* balances of another account than the crawled one changed.
C29_Witness ==
    /\ last.op = "process"
    /\ last.tx.err
    /\ \E k \in 1..Len(last.tx.tok) :
           /\ last.tx.tok[k][2] # last.tx.tok[k][3]
           /\ last.tx.keys[last.tx.tok[k][1]] # last.address

\* A fault ends the parse of the transaction: an entry with a balance change
\* cannot be built.
Malformed(tx) ==
    \E k \in 1..Len(tx.tok) :
        /\ tx.tok[k][2] # tx.tok[k][3]
        /\ tx.tok[k][1] \notin 1..Len(tx.keys) \/ tx.blockTime # "number"

\* C30 (refuted by the code): no transactions or trades row carries the
\* signature of a malformed transaction, and no crawl that processed one has
\* the status 'error'.
C30_MalformedTransactionLeavesNoRow ==
    /\ \A k \in 1..Len(ledger) :
           Malformed(ledger[k]) =>
               /\ RowsOfSignature(ledger[k].signature) = {}
               /\ \A i \in 1..Len(trades) :
                      trades[i].transaction_hash # ledger[k].signature
    /\ \A a \in Addresses : crawl_status[a] # "error"

\* C28: with two sessions interleaved at their awaits, no table gets a
\* duplicate row (wallets by address, transactions by transaction_hash, trades
\* by transaction_hash and wallet, wallet_lineages by wallet and mother), and no
\* address gets two primary mothers: the rows of an address agree on
\* mother_wallet_id and no step of either session changes the mother_wallet_id
\* of a row that exists.
C28_ConcurrentSessionsRaceFree ==
    /\ [](\A i, j \in 1..Len(wallets) :
              wallets[i].address = wallets[j].address =>
                  i = j /\ wallets[i].mother_wallet_id = wallets[j].mother_wallet_id)
    /\ [](\A i, j \in 1..Len(transactions) :
              transactions[i].transaction_hash = transactions[j].transaction_hash => i = j)
    /\ [](\A i, j \in 1..Len(trades) :
              ( /\ trades[i].transaction_hash = trades[j].transaction_hash
                /\ trades[i].wallet_id = trades[j].wallet_id ) => i = j)
    /\ [](\A i, j \in 1..Len(wallet_lineages) :
              ( /\ wallet_lineages[i].wallet_id = wallet_lineages[j].wallet_id
                /\ wallet_lineages[i].mother_wallet_id = wallet_lineages[j].mother_wallet_id )
              => i = j)
    /\ [][ \A i \in 1..Len(wallets) :
               /\ i <= Len(wallets')
               /\ wallets'[i].address = wallets[i].address
               /\ wallets'[i].mother_wallet_id = wallets[i].mother_wallet_id ]_vars

\* C28 witness: while the other session waits in a crawl that collected a
\* transaction and entered the address, this session enters the same address and
\* processes the same signature, which already has its row.
C28_Witness ==
    /\ last.op = "process"
    /\ last.classified = "known"
    /\ RowsOfSignature(last.signature) # {}
    /\ suspended.running
    /\ \E k \in 1..Len(suspended.stack) :
           /\ suspended.stack[k].address = last.address
           /\ \E n \in 1..Len(suspended.stack[k].all_transactions) :
                  suspended.stack[k].all_transactions[n].signature = last.signature

\* C31: a wallets row created by process_transaction for the sender of a
\* recorded transfer has is_external true, no mother, generation 999 and the
\* crawled wallet's mother as discovered_by_mother; every row a
\* process_transaction step creates, and every row of every state, has
\* is_external true exactly when mother_wallet_id is null.
C31_NewSenderIsExternal ==
    /\ [][ last'.op = "process" =>
             /\ \A i \in (Len(wallets) + 1)..Len(wallets') :
                    wallets'[i].is_external <=> (wallets'[i].mother_wallet_id = Null)
             /\ \A t \in (Len(transactions) + 1)..Len(transactions') :
                    transactions'[t].from_wallet_id > Len(wallets) =>
                        LET row == wallets'[transactions'[t].from_wallet_id]
                        IN  /\ row.is_external
                            /\ row.mother_wallet_id = Null
                            /\ row.generation = ExternalGeneration
                            /\ row.discovered_by_mother =
                                   wallets[last'.wallet_id].mother_wallet_id ]_vars
    /\ [](\A i \in 1..Len(wallets) :
              wallets[i].is_external <=> (wallets[i].mother_wallet_id = Null))

\* C31 witness: process_transaction has just recorded a transfer whose sender
\* had no wallets row, for a crawled wallet that has a mother.
C31_Witness ==
    /\ last.op = "process"
    /\ Len(transactions) > last.transactions_before
    /\ transactions[Len(transactions)].from_wallet_id > last.wallets_before
    /\ wallets[last.wallet_id].mother_wallet_id # Null
    /\ wallets[transactions[Len(transactions)].from_wallet_id].discovered_by_mother # Null

\* C32 (refuted by the code): crawl_wallet_tree at generation g descends into
\* the recipient of an outbound transfer exactly when the recipient's stored
\* generation is above g + 1 or its balance was never fetched (no crawl of the
\* address was ever entered), and skips it otherwise.
C32_DescendsExactlyIntoUnsettled ==
    [][ \A rid \in 1..Len(wallets) :
           LET unsettled == \/ wallets[rid].generation > Top.generation + 1
                            \/ crawl_status[wallets[rid].address] = "none"
           IN  /\ (last'.op = "descend" /\ last'.recipient = wallets[rid].address)
                      => unsettled
               /\ (last'.op = "skip" /\ last'.recipient = wallets[rid].address)
                      => ~unsettled ]_vars

\* C33: a started session ends. No call is deeper than one past max_depth, and
\* every descent into a recipient strictly lowers the recipient's stored
\* generation, so a wallet is descended into a bounded number of times whatever
\* cycles the recorded transfers form.
C33_CrawlTerminates ==
    /\ running ~> ~running
    /\ [](\A k \in 1..Len(stack) :
              stack[k].generation <= max_depth + 1 /\ Len(stack) <= max_depth + 2)
    /\ [][ last'.op = "descend" =>
             \A rid \in 1..Len(wallets) :
                 wallets[rid].address = last'.recipient =>
                     /\ wallets'[rid].generation < wallets[rid].generation
                     /\ wallets'[rid].generation >= 1 ]_vars

\* C33 witness: the recipient of an outbound transfer of the crawled wallet is
\* a wallet whose own crawl is still open further up the call stack.
C33_Witness ==
    /\ last.op \in {"skip", "descend"}
    /\ \E k \in 1..(Len(stack) - 1) :
           /\ stack[k].address = last.recipient
           /\ k < Len(stack) - (IF last.op = "descend" THEN 1 ELSE 0)

TokenOnlyProcessed ==
    /\ last.op = "process"
    /\ WalletYaffaChange(last.address, parse_yaffa_transfers(last.tx)) # 0
    /\ get_sol_balance_change(last.address, last.tx) = 0

\* The transaction has a parsed entry for another account than the crawled one.
HasCounterparty ==
    \E k \in 1..Len(parse_yaffa_transfers(last.tx)) :
        parse_yaffa_transfers(last.tx)[k].account # last.address

C36_AggregatesFreshAtSessionEnd ==
    last.op = "end_session" =>
        \A id \in 1..Len(wallets) :
            crawl_status[wallets[id].address] = "completed" =>
                wallets = calculate_wallet_totals(Db, id)

\* No signature has both a trades row and a transactions row.
NoSignatureInBothTables ==
    \A i \in 1..Len(trades) : RowsOfSignature(trades[i].transaction_hash) = {}

ActuallySent(a, b) ==
    \E k \in 1..Len(ledger) :
        LET tx == ledger[k]
        IN  /\ ~tx.err
            /\ \E i, j \in 1..Len(tx.tok) :
                   /\ tx.tok[i][1] \in 1..Len(tx.keys) /\ tx.keys[tx.tok[i][1]] = a
                   /\ tx.tok[j][1] \in 1..Len(tx.keys) /\ tx.keys[tx.tok[j][1]] = b
                   /\ tx.tok[i][3] < tx.tok[i][2]
                   /\ tx.tok[j][3] > tx.tok[j][2]

\* The addresses reached from S by at most n transfers.
RECURSIVE ReachedWithin(_, _)
ReachedWithin(S, n) ==
    IF n = 0 THEN S
    ELSE ReachedWithin(S \cup { b \in Addresses : \E a \in S : ActuallySent(a, b) }, n - 1)

\* C38 (refuted by the code): when a session has ended, every address reached
\* from one of its seeds by at most max_depth actual transfers has a wallets
\* row with a mother and is_external false, and the status 'completed'.
C38_ReachableWalletsAreCovered ==
    last.op = "end_session" =>
        \A a \in ReachedWithin({ wallet_addresses[k] : k \in 1..Len(wallet_addresses) },
                               max_depth) :
            /\ WalletIdOf(wallets, a) # Null
            /\ wallets[WalletIdOf(wallets, a)].mother_wallet_id # Null
            /\ ~wallets[WalletIdOf(wallets, a)].is_external
            /\ crawl_status[a] = "completed"

====
